---- MODULE Spec2Model ----
(***************************************************************************)
(* Model of backend/intelligent_selection_lite.py (IntelligentSelectorLite)*)
(* : the job-description analyzer, the context-aware skill matcher, the    *)
(* text similarity estimator and the profile asset ranker.                 *)
(*                                                                         *)
(* Texts are sequences of one-character strings, so that lowercasing,      *)
(* substring search, word boundaries and tokenisation are computed the way *)
(* the Python code computes them.  Scores are exact rationals [n, d]       *)
(* (n/d, d > 0): the float arithmetic of the code is modelled without      *)
(* rounding.                                                               *)
(***************************************************************************)
EXTENDS Integers, Sequences, FiniteSets, TLC

VARIABLES nlp, load_count, job_description, job_analysis, user_profile, args, call, result

vars == <<nlp, load_count, job_description, job_analysis, user_profile, args, call, result>>

(***************************************************************************)
(* Characters and str methods                                              *)
(***************************************************************************)
UpperChars == <<"A","B","C","D","E","F","G","H","I","J","K","L","M",
                "N","O","P","Q","R","S","T","U","V","W","X","Y","Z">>

LowerChars == <<"a","b","c","d","e","f","g","h","i","j","k","l","m",
                "n","o","p","q","r","s","t","u","v","w","x","y","z">>

DigitChars == {"0","1","2","3","4","5","6","7","8","9"}

SpaceChars == {" ", "\n", "\t"}

Range(f) == {f[i] : i \in DOMAIN f}

WordChars == Range(UpperChars) \cup Range(LowerChars) \cup DigitChars \cup {"_"}

\* \w of the re module: letters, digits and the underscore
IsWordChar(c) == c \in WordChars

LowerOf == [c \in Range(UpperChars) |->
               LowerChars[CHOOSE i \in DOMAIN UpperChars : UpperChars[i] = c]]

LowerChar(c) == IF c \in DOMAIN LowerOf THEN LowerOf[c] ELSE c

\* str.lower()
Lower(text) == [i \in DOMAIN text |-> LowerChar(text[i])]

\* the slice text[i:i+n] (0-based i)
Slice(text, i, n) == SubSeq(text, i + 1, i + n)

\* text.startswith(sub, i)
StartsAt(text, i, sub) ==
    /\ i + Len(sub) <= Len(text)
    /\ \A k \in 1..Len(sub) : text[i + k] = sub[k]

\* the operator `sub in text` on two str
Contains(text, sub) == \E i \in 0..Len(text) : StartsAt(text, i, sub)

\* ' '.join(items)
RECURSIVE Join(_)
Join(items) ==
    IF items = <<>> THEN <<>>
    ELSE IF Len(items) = 1 THEN items[1]
    ELSE items[1] \o <<" ">> \o Join(Tail(items))

\* str.replace(' ', with)
RECURSIVE ReplaceSpace(_, _)
ReplaceSpace(text, with) ==
    IF text = <<>> THEN <<>>
    ELSE (IF Head(text) = " " THEN with ELSE <<Head(text)>>) \o ReplaceSpace(Tail(text), with)

\* The regular expressions of the module, as sequences of items matched by a
\* position-set simulation: an item maps the set of positions at which the
\* match so far may end to the set of positions after the item.
\*   lit     one of the literal alternatives of a non-capturing group
\*   wb      a word boundary
\*   ws1     one or more whitespace characters;  ws0  zero or more
\*   any     any run of characters other than a newline
\*   optws   an optional group: a literal followed by ws1
\*   opts    an optional group: a literal followed by ws0
\*   opt     an optional literal
\*   digits  one or more digits
Lit(alts)   == [op |-> "lit", alts |-> alts]
Wb          == [op |-> "wb", alts |-> {}]
Ws1         == [op |-> "ws1", alts |-> {}]
Ws0         == [op |-> "ws0", alts |-> {}]
AnyRun      == [op |-> "any", alts |-> {}]
OptWs(lit)  == [op |-> "optws", alts |-> {lit}]
OptS(lit)   == [op |-> "opts", alts |-> {lit}]
Opt(lit)    == [op |-> "opt", alts |-> {lit}]
Digits      == [op |-> "digits", alts |-> {}]

\* \b at position p (between text[p] and text[p+1], 0 <= p <= Len)
WordBoundaryAt(text, p) ==
    LET before == p >= 1 /\ IsWordChar(text[p])
        after  == p < Len(text) /\ IsWordChar(text[p + 1])
    IN  before # after

\* the positions q >= p with text[p+1..q] all in the class
RunEnds(text, p, InClass(_)) ==
    {q \in p..Len(text) : \A k \in (p + 1)..q : InClass(text[k])}

IsSpace(c) == c \in SpaceChars
IsDigit(c) == c \in DigitChars
NotNewline(c) == c # "\n"

LitEnds(text, p, alts) == {p + Len(a) : a \in {b \in alts : StartsAt(text, p, b)}}

ItemEnds(item, text, p) ==
    CASE item.op = "lit"    -> LitEnds(text, p, item.alts)
      [] item.op = "wb"     -> IF WordBoundaryAt(text, p) THEN {p} ELSE {}
      [] item.op = "ws1"    -> RunEnds(text, p, IsSpace) \ {p}
      [] item.op = "ws0"    -> RunEnds(text, p, IsSpace)
      [] item.op = "any"    -> RunEnds(text, p, NotNewline)
      [] item.op = "optws"  -> {p} \cup UNION {RunEnds(text, q, IsSpace) \ {q} :
                                                q \in LitEnds(text, p, item.alts)}
      [] item.op = "opts"   -> {p} \cup UNION {RunEnds(text, q, IsSpace) :
                                                q \in LitEnds(text, p, item.alts)}
      [] item.op = "opt"    -> {p} \cup LitEnds(text, p, item.alts)
      [] item.op = "digits" -> RunEnds(text, p, IsDigit) \ {p}

\* the end positions of the matches of pattern[k..] that start in `from`
RECURSIVE MatchEnds(_, _, _, _)
MatchEnds(pattern, k, text, from) ==
    IF k > Len(pattern) \/ from = {} THEN from
    ELSE MatchEnds(pattern, k + 1, text,
                   UNION {ItemEnds(pattern[k], text, p) : p \in from})

\* bool(re.search(pattern, text))
Search(pattern, text) == MatchEnds(pattern, 1, text, 0..Len(text)) # {}

\* re.findall(r'\b\w+\b', text): the maximal runs of word characters
Words(text) ==
    LET n == Len(text)
        starts == {a \in 0..(n - 1) :
                      IsWordChar(text[a + 1]) /\ (a = 0 \/ ~IsWordChar(text[a]))}
        ends   == {b \in 1..n :
                      IsWordChar(text[b]) /\ (b = n \/ ~IsWordChar(text[b + 1]))}
        EndOf(a) == CHOOSE b \in ends : b > a /\ \A c \in ends : c > a => b <= c
    IN  {Slice(text, a, EndOf(a) - a) : a \in starts}

(***************************************************************************)
(* Skill and concept catalog (IntelligentSelectorLite.__init__), in list   *)
(* order                                                                   *)
(***************************************************************************)
\* self.tech_skills
tech_skills ==
    <<
       <<"p","y","t","h","o","n">>, <<"j","a","v","a","s","c","r","i","p","t">>, <<"t","y","p","e","s","c","r","i","p","t">>,
       <<"j","a","v","a">>, <<"k","o","t","l","i","n">>, <<"s","c","a","l","a">>,
       <<"s","w","i","f","t">>, <<"c","+","+">>, <<"c","#">>,
       <<"o","b","j","e","c","t","i","v","e","-","c">>, <<"g","o">>, <<"r","u","s","t">>,
       <<"p","h","p">>, <<"r","u","b","y">>, <<"r">>,
       <<"c">>, <<"m","a","t","l","a","b">>, <<"s","q","l">>,
       <<"h","t","m","l">>, <<"c","s","s">>, <<"x","m","l">>,
       <<"j","s","o","n">>, <<"y","a","m","l">>, <<"r","e","a","c","t">>,
       <<"a","n","g","u","l","a","r">>, <<"v","u","e",".","j","s">>, <<"v","u","e">>,
       <<"n","o","d","e",".","j","s">>, <<"e","x","p","r","e","s","s",".","j","s">>, <<"e","x","p","r","e","s","s">>,
       <<"d","j","a","n","g","o">>, <<"f","l","a","s","k">>, <<"f","a","s","t","a","p","i">>,
       <<"s","p","r","i","n","g"," ","b","o","o","t">>, <<"s","p","r","i","n","g">>, <<"l","a","r","a","v","e","l">>,
       <<"r","a","i","l","s">>, <<"t","e","n","s","o","r","f","l","o","w">>, <<"p","y","t","o","r","c","h">>,
       <<"s","c","i","k","i","t","-","l","e","a","r","n">>, <<"p","a","n","d","a","s">>, <<"n","u","m","p","y">>,
       <<"m","a","t","p","l","o","t","l","i","b">>, <<"s","e","a","b","o","r","n">>, <<"p","l","o","t","l","y">>,
       <<"d","3",".","j","s">>, <<"j","q","u","e","r","y">>, <<"b","o","o","t","s","t","r","a","p">>,
       <<"t","a","i","l","w","i","n","d">>, <<"m","y","s","q","l">>, <<"p","o","s","t","g","r","e","s","q","l">>,
       <<"m","o","n","g","o","d","b">>, <<"r","e","d","i","s">>, <<"e","l","a","s","t","i","c","s","e","a","r","c","h">>,
       <<"c","a","s","s","a","n","d","r","a">>, <<"d","y","n","a","m","o","d","b">>, <<"s","q","l","i","t","e">>,
       <<"o","r","a","c","l","e">>, <<"s","q","l"," ","s","e","r","v","e","r">>, <<"m","a","r","i","a","d","b">>,
       <<"a","w","s">>, <<"a","z","u","r","e">>, <<"g","c","p">>,
       <<"g","o","o","g","l","e"," ","c","l","o","u","d">>, <<"d","o","c","k","e","r">>, <<"k","u","b","e","r","n","e","t","e","s">>,
       <<"j","e","n","k","i","n","s">>, <<"g","i","t","h","u","b"," ","a","c","t","i","o","n","s">>, <<"g","i","t","l","a","b"," ","c","i">>,
       <<"t","e","r","r","a","f","o","r","m">>, <<"a","n","s","i","b","l","e">>, <<"n","g","i","n","x">>,
       <<"a","p","a","c","h","e">>, <<"l","i","n","u","x">>, <<"u","b","u","n","t","u">>,
       <<"c","e","n","t","o","s">>, <<"d","e","b","i","a","n">>, <<"w","i","n","d","o","w","s"," ","s","e","r","v","e","r">>,
       <<"g","i","t">>, <<"g","i","t","h","u","b">>, <<"g","i","t","l","a","b">>,
       <<"b","i","t","b","u","c","k","e","t">>, <<"j","i","r","a">>, <<"c","o","n","f","l","u","e","n","c","e">>,
       <<"s","l","a","c","k">>, <<"m","i","c","r","o","s","o","f","t"," ","t","e","a","m","s">>, <<"v","i","s","u","a","l"," ","s","t","u","d","i","o">>,
       <<"v","s","c","o","d","e">>, <<"i","n","t","e","l","l","i","j">>, <<"e","c","l","i","p","s","e">>,
       <<"j","u","p","y","t","e","r">>, <<"p","o","s","t","m","a","n">>, <<"i","n","s","o","m","n","i","a">>,
       <<"f","i","g","m","a">>, <<"s","k","e","t","c","h">>, <<"a","d","o","b","e">>
    >>

\* self.business_concepts
business_concepts ==
    <<
       <<"l","e","a","d","e","r","s","h","i","p">>, <<"m","a","n","a","g","e","m","e","n","t">>, <<"t","e","a","m","w","o","r","k">>,
       <<"c","o","l","l","a","b","o","r","a","t","i","o","n">>, <<"c","o","m","m","u","n","i","c","a","t","i","o","n">>, <<"p","r","o","b","l","e","m"," ","s","o","l","v","i","n","g">>,
       <<"p","r","o","j","e","c","t"," ","m","a","n","a","g","e","m","e","n","t">>, <<"a","g","i","l","e">>, <<"s","c","r","u","m">>,
       <<"k","a","n","b","a","n">>, <<"s","t","a","k","e","h","o","l","d","e","r"," ","m","a","n","a","g","e","m","e","n","t">>, <<"s","t","r","a","t","e","g","y">>,
       <<"a","n","a","l","y","s","i","s">>, <<"r","e","s","e","a","r","c","h">>, <<"d","o","c","u","m","e","n","t","a","t","i","o","n">>,
       <<"p","r","e","s","e","n","t","a","t","i","o","n">>, <<"m","e","n","t","o","r","i","n","g">>, <<"c","o","a","c","h","i","n","g">>
    >>

\* self.teaching_skills
teaching_skills ==
    <<
       <<"c","u","r","r","i","c","u","l","u","m"," ","d","e","v","e","l","o","p","m","e","n","t">>, <<"l","e","s","s","o","n"," ","p","l","a","n","n","i","n","g">>,
       <<"c","l","a","s","s","r","o","o","m"," ","m","a","n","a","g","e","m","e","n","t">>, <<"a","s","s","e","s","s","m","e","n","t">>,
       <<"d","i","f","f","e","r","e","n","t","i","a","t","e","d"," ","i","n","s","t","r","u","c","t","i","o","n">>, <<"e","d","u","c","a","t","i","o","n","a","l"," ","t","e","c","h","n","o","l","o","g","y">>,
       <<"s","t","u","d","e","n","t"," ","e","n","g","a","g","e","m","e","n","t">>, <<"l","e","a","r","n","i","n","g"," ","o","b","j","e","c","t","i","v","e","s">>,
       <<"p","e","d","a","g","o","g","y">>, <<"e","d","u","c","a","t","i","o","n","a","l"," ","p","s","y","c","h","o","l","o","g","y">>,
       <<"s","p","e","c","i","a","l"," ","n","e","e","d","s">>, <<"i","n","c","l","u","s","i","v","e"," ","e","d","u","c","a","t","i","o","n">>,
       <<"p","a","r","e","n","t"," ","c","o","m","m","u","n","i","c","a","t","i","o","n">>, <<"p","r","o","f","e","s","s","i","o","n","a","l"," ","d","e","v","e","l","o","p","m","e","n","t">>
    >>

\* self.job_categories, in insertion order
category_names == <<"teaching", "healthcare", "technology", "business", "research">>

job_categories ==
    [c \in Range(category_names) |->
        CASE c = "teaching" ->
               <<<<"t","e","a","c","h","e","r">>,
                 <<"i","n","s","t","r","u","c","t","o","r">>,
                 <<"p","r","o","f","e","s","s","o","r">>,
                 <<"e","d","u","c","a","t","o","r">>,
                 <<"t","u","t","o","r">>,
                 <<"l","e","c","t","u","r","e","r">>,
                 <<"t","e","a","c","h","i","n","g">>,
                 <<"e","d","u","c","a","t","i","o","n">>,
                 <<"c","l","a","s","s","r","o","o","m">>,
                 <<"c","u","r","r","i","c","u","l","u","m">>,
                 <<"s","t","u","d","e","n","t">>,
                 <<"s","c","h","o","o","l">>>>
          [] c = "healthcare" ->
               <<<<"n","u","r","s","e">>,
                 <<"d","o","c","t","o","r">>,
                 <<"p","h","y","s","i","c","i","a","n">>,
                 <<"m","e","d","i","c","a","l">>,
                 <<"c","l","i","n","i","c","a","l">>,
                 <<"p","a","t","i","e","n","t">>,
                 <<"h","o","s","p","i","t","a","l">>>>
          [] c = "technology" ->
               <<<<"d","e","v","e","l","o","p","e","r">>,
                 <<"e","n","g","i","n","e","e","r">>,
                 <<"p","r","o","g","r","a","m","m","e","r">>,
                 <<"s","o","f","t","w","a","r","e">>,
                 <<"t","e","c","h","n","i","c","a","l">>,
                 <<"c","o","d","i","n","g">>>>
          [] c = "business" ->
               <<<<"m","a","n","a","g","e","r">>,
                 <<"a","n","a","l","y","s","t">>,
                 <<"c","o","n","s","u","l","t","a","n","t">>,
                 <<"s","a","l","e","s">>,
                 <<"m","a","r","k","e","t","i","n","g">>,
                 <<"f","i","n","a","n","c","e">>>>
          [] c = "research" ->
               <<<<"r","e","s","e","a","r","c","h">>,
                 <<"s","c","i","e","n","t","i","s","t">>,
                 <<"a","n","a","l","y","s","t">>,
                 <<"d","a","t","a">>,
                 <<"s","t","u","d","y">>,
                 <<"i","n","v","e","s","t","i","g","a","t","i","o","n">>>>]

(***************************************************************************)
(* Context-aware skill matcher                                             *)
(***************************************************************************)
\* language_patterns['r']
Patterns_r ==
    <<<<Wb, Lit({<<"r">>}), Ws1, Lit({<<"p","r","o","g","r","a","m","m","i","n","g">>, <<"l","a","n","g","u","a","g","e">>, <<"s","c","r","i","p","t">>, <<"s","t","a","t","i","s","t","i","c","a","l">>, <<"d","a","t","a">>, <<"a","n","a","l","y","s","i","s">>})>>,
      <<Lit({<<"p","r","o","g","r","a","m","m","i","n","g">>, <<"l","a","n","g","u","a","g","e">>, <<"s","t","a","t","i","s","t","i","c","a","l">>, <<"d","a","t","a">>}), Ws1, OptWs(<<"w","i","t","h">>), Lit({<<"r">>}), Wb>>,
      <<Wb, Lit({<<"r">>}), Ws1, Lit({<<"s","t","u","d","i","o">>, <<"p","a","c","k","a","g","e","s">>, <<"c","r","a","n">>})>>,
      <<Lit({<<"g","g","p","l","o","t">>, <<"d","p","l","y","r">>, <<"t","i","d","y","v","e","r","s","e">>, <<"s","h","i","n","y">>}), AnyRun, Lit({<<"r">>}), Wb>>,
      <<Wb, Lit({<<"r">>}), Wb, AnyRun, Lit({<<"s","t","a","t","i","s","t","i","c","a","l">>, <<"a","n","a","l","y","t","i","c","s">>, <<"v","i","s","u","a","l","i","z","a","t","i","o","n">>})>>,
      <<Lit({<<"e","x","p","e","r","i","e","n","c","e">>, <<"p","r","o","f","i","c","i","e","n","t">>, <<"s","k","i","l","l","e","d">>}), Ws1, OptWs(<<"i","n">>), Lit({<<"r">>}), Wb>>,
      <<Wb, Lit({<<"r">>}), Ws1, Lit({<<"/">>, <<"a","n","d">>, <<"o","r">>}), Ws1, Lit({<<"p","y","t","h","o","n">>})>>,
      <<Lit({<<"p","y","t","h","o","n">>}), Ws1, Lit({<<"/">>, <<"a","n","d">>, <<"o","r">>}), Ws1, Lit({<<"r">>}), Wb>>>>

\* language_patterns['c']
Patterns_c ==
    <<<<Wb, Lit({<<"c">>}), Ws1, Lit({<<"p","r","o","g","r","a","m","m","i","n","g">>, <<"l","a","n","g","u","a","g","e">>})>>,
      <<Lit({<<"p","r","o","g","r","a","m","m","i","n","g">>, <<"l","a","n","g","u","a","g","e">>}), Ws1, OptWs(<<"i","n">>), Lit({<<"c">>}), Wb>>,
      <<Wb, Lit({<<"c">>}), Ws1, Lit({<<"/">>, <<"a","n","d">>, <<"o","r">>}), Ws1, Lit({<<"c","+","+">>})>>,
      <<Lit({<<"c","+","+">>}), Ws1, Lit({<<"/">>, <<"a","n","d">>, <<"o","r">>}), Ws1, Lit({<<"c">>}), Wb>>,
      <<Lit({<<"e","x","p","e","r","i","e","n","c","e">>, <<"p","r","o","f","i","c","i","e","n","t">>, <<"s","k","i","l","l","e","d">>}), Ws1, OptWs(<<"i","n">>), Lit({<<"c">>}), Wb>>,
      <<Wb, Lit({<<"c">>}), Ws1, Lit({<<"d","e","v","e","l","o","p","m","e","n","t">>, <<"c","o","d","i","n","g">>})>>,
      <<Lit({<<"e","m","b","e","d","d","e","d">>, <<"s","y","s","t","e","m">>}), Ws1, OptWs(<<"p","r","o","g","r","a","m","m","i","n","g">>), OptWs(<<"i","n">>), Lit({<<"c">>}), Wb>>>>

\* language_patterns['go']
Patterns_go ==
    <<<<Wb, Lit({<<"g","o">>}), Ws1, Lit({<<"p","r","o","g","r","a","m","m","i","n","g">>, <<"l","a","n","g","u","a","g","e">>, <<"l","a","n","g">>})>>,
      <<Lit({<<"p","r","o","g","r","a","m","m","i","n","g">>, <<"l","a","n","g","u","a","g","e">>}), Ws1, OptWs(<<"i","n">>), Lit({<<"g","o">>}), Wb>>,
      <<Lit({<<"g","o","l","a","n","g">>}), Wb>>,
      <<Wb, Lit({<<"g","o">>}), Ws1, Lit({<<"d","e","v","e","l","o","p","m","e","n","t">>, <<"c","o","d","i","n","g">>})>>,
      <<Lit({<<"e","x","p","e","r","i","e","n","c","e">>, <<"p","r","o","f","i","c","i","e","n","t">>, <<"s","k","i","l","l","e","d">>}), Ws1, OptWs(<<"i","n">>), Lit({<<"g","o">>}), Wb>>,
      <<Wb, Lit({<<"g","o">>}), Ws1, Lit({<<"/">>, <<"a","n","d">>, <<"o","r">>}), Ws1, Lit({<<"p","y","t","h","o","n">>, <<"j","a","v","a">>, <<"r","u","s","t">>})>>,
      <<Lit({<<"p","y","t","h","o","n">>, <<"j","a","v","a">>, <<"r","u","s","t">>}), Ws1, Lit({<<"/">>, <<"a","n","d">>, <<"o","r">>}), Ws1, Lit({<<"g","o">>}), Wb>>,
      <<Lit({<<"g","o","o","g","l","e">>}), Ws1, Lit({<<"g","o">>}), Wb>>>>


HasContextPatterns(language) ==
    language \in {<<"r">>, <<"c">>, <<"g","o">>}

language_patterns(language) ==
    CASE language = <<"r">>     -> Patterns_r
      [] language = <<"c">>     -> Patterns_c
      [] language = <<"g","o">> -> Patterns_go

\* _check_programming_language_context(language, text)
CheckProgrammingLanguageContext(language, text) ==
    /\ HasContextPatterns(language)
    /\ \E k \in DOMAIN language_patterns(language) :
          Search(language_patterns(language)[k], text)

\* r'\b' + re.escape(skill_lower) + r'\b'
WordBoundedPattern(skill_lower) == <<Wb, Lit({skill_lower}), Wb>>

\* the matcher as plain containment of the lowercased skill
IsSkillMentionedBySubstring(skill, text) == Contains(Lower(text), Lower(skill))

\* _is_skill_mentioned(skill, text), for a str skill and a str text
IsSkillMentioned(skill, text) ==
    LET skill_lower == Lower(skill)
        text_lower  == Lower(text)
    IN  IF skill_lower \in {<<"r">>, <<"c">>, <<"g","o">>}
        THEN CheckProgrammingLanguageContext(skill_lower, text_lower)
        ELSE IF \E i \in DOMAIN skill_lower : skill_lower[i] \in {" ", "."}
        THEN Contains(text_lower, skill_lower)
        ELSE Search(WordBoundedPattern(skill_lower), text_lower)

(***************************************************************************)
(* Text similarity estimator                                               *)
(***************************************************************************)
\* a float held as the exact fraction n/d
Frac(n, d) == [n |-> n, d |-> d]

FracLeq(a, b) == a.n * b.d <= b.n * a.d
FracEq(a, b)  == a.n * b.d = b.n * a.d
FracLt(a, b)  == a.n * b.d < b.n * a.d

\* the similarity dividing by len(words1) + len(words2) in place of the union
CalculateTextSimilarityOverSum(text1, text2) ==
    LET words1 == Words(Lower(text1))
        words2 == Words(Lower(text2))
    IN  IF words1 = {} \/ words2 = {} THEN Frac(0, 1)
        ELSE Frac(Cardinality(words1 \cap words2), Cardinality(words1) + Cardinality(words2))

\* the similarity without .lower()
CalculateTextSimilarityCased(text1, text2) ==
    LET words1 == Words(text1)
        words2 == Words(text2)
    IN  IF words1 = {} \/ words2 = {} THEN Frac(0, 1)
        ELSE Frac(Cardinality(words1 \cap words2), Cardinality(words1 \cup words2))

\* calculate_text_similarity(text1, text2)
CalculateTextSimilarity(text1, text2) ==
    LET words1 == Words(Lower(text1))
        words2 == Words(Lower(text2))
        intersection == Cardinality(words1 \cap words2)
        union == Cardinality(words1 \cup words2)
    IN  IF words1 = {} \/ words2 = {} THEN Frac(0, 1)
        ELSE IF union > 0 THEN Frac(intersection, union) ELSE Frac(0, 1)

(***************************************************************************)
(* Python values of a caller's profile                                     *)
(*   a scalar is [t, s]: a str (t = "str", s its text) or None (t = "none")*)
(*   a list entry is [t, s, items]: a scalar, or a dict (t = "dict") whose *)
(*   items are its <<key, value>> pairs in insertion order                 *)
(*   a profile is [projects, experiences], each [t, s, items]: the key is  *)
(*   absent (t = "absent"), a str, a list of entries (t = "list") or None  *)
(***************************************************************************)
StrVal(text) == [t |-> "str", s |-> text]
NoneVal      == [t |-> "none", s |-> <<>>]

StrEntry(text) == [t |-> "str", s |-> text, items |-> <<>>]
NoneEntry      == [t |-> "none", s |-> <<>>, items |-> <<>>]
DictEntry(kv)  == [t |-> "dict", s |-> <<>>, items |-> kv]

Absent         == [t |-> "absent", s |-> <<>>, items |-> <<>>]
StrField(text) == [t |-> "str", s |-> text, items |-> <<>>]
ListField(es)  == [t |-> "list", s |-> <<>>, items |-> es]
NoneField      == [t |-> "none", s |-> <<>>, items |-> <<>>]

\* repr() of a scalar (a str without quotes or escapes)
Repr(v) ==
    IF v.t = "str" THEN <<"'">> \o v.s \o <<"'">>
    ELSE <<"N","o","n","e">>

\* str() of a scalar, also its rendering in an f-string
Str(v) == IF v.t = "str" THEN v.s ELSE <<"N","o","n","e">>

RECURSIVE ReprItems(_)
ReprItems(kv) ==
    IF kv = <<>> THEN <<>>
    ELSE <<"'">> \o kv[1][1] \o <<"'", ":", " ">> \o Repr(kv[1][2])
         \o (IF Len(kv) > 1 THEN <<",", " ">> ELSE <<>>) \o ReprItems(Tail(kv))

\* str() of a list entry
StrOfEntry(e) ==
    IF e.t = "dict" THEN <<"{">> \o ReprItems(e.items) \o <<"}">>
    ELSE Str([t |-> e.t, s |-> e.s])

\* dict.get(key, default)
DictGet(e, key, default) ==
    IF \E i \in DOMAIN e.items : e.items[i][1] = key
    THEN e.items[CHOOSE i \in DOMAIN e.items : e.items[i][1] = key][2]
    ELSE default

k_title       == <<"t","i","t","l","e">>
k_name        == <<"n","a","m","e">>
k_description == <<"d","e","s","c","r","i","p","t","i","o","n">>
k_position    == <<"p","o","s","i","t","i","o","n">>
k_role        == <<"r","o","l","e">>

(***************************************************************************)
(* Asset scorer and ranker                                                 *)
(***************************************************************************)
RawAsset(title, description, type) ==
    [title |-> title, description |-> description, type |-> type]

\* rank_profile_assets: one project entry of a list
NormalizeProject(project) ==
    IF project.t = "dict"
    THEN RawAsset(DictGet(project, k_title,
                          DictGet(project, k_name, StrVal(<<"P","r","o","j","e","c","t">>))),
                  DictGet(project, k_description, StrVal(StrOfEntry(project))),
                  "project")
    ELSE RawAsset(StrVal(<<"P","r","o","j","e","c","t">>), StrVal(StrOfEntry(project)), "project")

\* rank_profile_assets: one experience entry of a list
NormalizeExperience(exp) ==
    IF exp.t = "dict"
    THEN RawAsset(DictGet(exp, k_position,
                          DictGet(exp, k_title,
                                  DictGet(exp, k_role,
                                          StrVal(<<"E","x","p","e","r","i","e","n","c","e">>)))),
                  DictGet(exp, k_description, StrVal(StrOfEntry(exp))),
                  "experience")
    ELSE RawAsset(StrVal(<<"E","x","p","e","r","i","e","n","c","e">>),
                  StrVal(StrOfEntry(exp)), "experience")

\* the 'projects' branch reading the key with user_profile.get('projects', '')
ProjectAssetsOfDefault(projects) ==
    CASE projects.t \in {"str", "absent"} ->
             <<RawAsset(StrVal(<<"P","r","o","j","e","c","t">>), StrVal(projects.s), "project")>>
      [] projects.t = "list" ->
             [i \in DOMAIN projects.items |-> NormalizeProject(projects.items[i])]
      [] OTHER -> <<>>

\* rank_profile_assets: the 'projects' branch
ProjectAssets(projects) ==
    CASE projects.t = "str"  ->
             <<RawAsset(StrVal(<<"P","r","o","j","e","c","t">>), StrVal(projects.s), "project")>>
      [] projects.t = "list" ->
             [i \in DOMAIN projects.items |-> NormalizeProject(projects.items[i])]
      [] OTHER -> <<>>

\* rank_profile_assets: the 'experiences' branch
ExperienceAssets(experiences) ==
    CASE experiences.t = "str"  ->
             <<RawAsset(StrVal(<<"E","x","p","e","r","i","e","n","c","e">>),
                        StrVal(experiences.s), "experience")>>
      [] experiences.t = "list" ->
             [i \in DOMAIN experiences.items |-> NormalizeExperience(experiences.items[i])]
      [] OTHER -> <<>>

\* rank_profile_assets: all_assets
AllAssets(profile) == ProjectAssets(profile.projects) \o ExperienceAssets(profile.experiences)

\* the loop `for x in items: if Hit(x): n += 1`
CountHits(items, Hit(_)) == Len(SelectSeq(items, Hit))

\* the list comprehension [x for x in items if Hit(x)]
Filter(items, Hit(_)) == SelectSeq(items, Hit)

\* the combined text without the title
CombinedTextDescriptionOnly(asset) == Lower(Str(asset.description))

\* _calculate_asset_score: f"{title} {description}".lower()
CombinedText(asset) == Lower(Str(asset.title) \o <<" ">> \o Str(asset.description))

\* _calculate_asset_score: the job_text f-string
JobText(ja) == Join(ja.required_skills) \o <<" ">> \o Join(ja.key_concepts)

SkillWeight      == 2
ConceptWeight    == 1
\* the similarity weight mistyped
SimilarityWeightTimesTen == 10 * 3
SimilarityWeight == 3
ScoreScale       == 10

\* _calculate_asset_score: max_possible_score
MaxPossibleScore(ja) ==
    SkillWeight * Len(ja.required_skills) + ConceptWeight * Len(ja.key_concepts)
    + SimilarityWeight

\* the normalisation without the division by max_possible_score and the cap
NormalizeScoreUnscaled(score, max_possible_score) ==
    Frac(score.n * ScoreScale, score.d)

\* _calculate_asset_score: the normalisation to the 0-10 scale and the cap
NormalizeScore(score, max_possible_score) ==
    LET normalized_score ==
            IF max_possible_score > 0
            THEN Frac(score.n * ScoreScale, score.d * max_possible_score)
            ELSE Frac(0, 1)
    IN  IF FracLt(Frac(ScoreScale, 1), normalized_score) THEN Frac(ScoreScale, 1)
        ELSE normalized_score

\* _calculate_asset_score(asset, job_analysis)
CalculateAssetScore(asset, ja) ==
    LET combined_text == CombinedText(asset)
        SkillHit(skill) == IsSkillMentioned(skill, combined_text)
        ConceptHit(concept) == Contains(combined_text, Lower(concept))
        hits == SkillWeight * CountHits(ja.required_skills, SkillHit)
                + ConceptWeight * CountHits(ja.key_concepts, ConceptHit)
        similarity_score == CalculateTextSimilarity(combined_text, JobText(ja))
        \* score = hits + similarity_score * 3.0, over the similarity's denominator
        score == Frac(hits * similarity_score.d + SimilarityWeight * similarity_score.n,
                      similarity_score.d)
    IN  NormalizeScore(score, MaxPossibleScore(ja))

\* the matching skills taken from the whole catalog
FindMatchingSkillsInCatalog(text, required_skills) ==
    LET Hit(skill) == IsSkillMentioned(skill, text)
    IN  Filter(tech_skills, Hit)

\* the matching skills found without lowercasing the text
FindMatchingSkillsCaseSensitive(text, required_skills) ==
    LET Hit(skill) == Contains(text, skill)
    IN  Filter(required_skills, Hit)

\* _find_matching_skills(text, required_skills), for a str text
FindMatchingSkills(text, required_skills) ==
    LET Hit(skill) == IsSkillMentioned(skill, text)
    IN  Filter(required_skills, Hit)

\* _find_matching_concepts(text, key_concepts), for a str text
FindMatchingConcepts(text, key_concepts) ==
    LET text_lower == Lower(text)
        Hit(concept) == Contains(text_lower, Lower(concept))
    IN  Filter(key_concepts, Hit)

\* _find_matching_skills / _find_matching_concepts call text.lower(): a
\* description that is no str raises AttributeError (the skills call only
\* when there is a skill to test, the concepts call always)
ScoringRaises(asset) == asset.description.t # "str"

\* the ProfileAsset built by the scoring loop
ScoreAsset(asset, ja) ==
    [title |-> asset.title,
     description |-> asset.description,
     score |-> CalculateAssetScore(asset, ja),
     matching_skills |-> FindMatchingSkills(asset.description.s, ja.required_skills),
     matching_concepts |-> FindMatchingConcepts(asset.description.s, ja.key_concepts)]

\* insertion in front of the elements of equal score: equal scores end reversed
RECURSIVE InsertByScoreBeforeEqual(_, _)
InsertByScoreBeforeEqual(sorted, x) ==
    IF sorted = <<>> THEN <<x>>
    ELSE IF FracLeq(Head(sorted).score, x.score) THEN <<x>> \o sorted
    ELSE <<Head(sorted)>> \o InsertByScoreBeforeEqual(Tail(sorted), x)

\* insertion of x into a list sorted by score, highest first, behind every
\* element whose score is not lower: list.sort(key=score, reverse=True) is
\* stable, equal scores keep their order
RECURSIVE InsertByScore(_, _)
InsertByScore(sorted, x) ==
    IF sorted = <<>> THEN <<x>>
    ELSE IF FracLt(Head(sorted).score, x.score) THEN <<x>> \o sorted
    ELSE <<Head(sorted)>> \o InsertByScore(Tail(sorted), x)

\* the sort without reverse=True: lowest score first
RECURSIVE InsertByScoreAsc(_, _)
InsertByScoreAsc(sorted, x) ==
    IF sorted = <<>> THEN <<x>>
    ELSE IF FracLt(x.score, Head(sorted).score) THEN <<x>> \o sorted
    ELSE <<Head(sorted)>> \o InsertByScoreAsc(Tail(sorted), x)

RECURSIVE SortByScoreAsc(_)
SortByScoreAsc(assets) ==
    IF assets = <<>> THEN <<>>
    ELSE InsertByScoreAsc(SortByScoreAsc(SubSeq(assets, 1, Len(assets) - 1)),
                          assets[Len(assets)])

RECURSIVE SortByScoreDesc(_)
SortByScoreDesc(assets) ==
    IF assets = <<>> THEN <<>>
    ELSE InsertByScore(SortByScoreDesc(SubSeq(assets, 1, Len(assets) - 1)),
                       assets[Len(assets)])

Returned(v) == [status |-> "returned", value |-> v]
Raised      == [status |-> "raised", value |-> <<>>]

\* rank_profile_assets(job_analysis, user_profile)
RankProfileAssetsResult(ja, profile) ==
    LET all_assets == AllAssets(profile)
    IN  IF \E i \in DOMAIN all_assets : ScoringRaises(all_assets[i])
        THEN Raised
        ELSE Returned(SortByScoreDesc([i \in DOMAIN all_assets |-> ScoreAsset(all_assets[i], ja)]))

(***************************************************************************)
(* Job category classifier                                                 *)
(***************************************************************************)
\* _detect_job_category: sum(1 for keyword in keywords if keyword in job_text)
CategoryScore(category, job_text) ==
    LET Hit(keyword) == Contains(job_text, keyword)
    IN  CountHits(job_categories[category], Hit)

\* the classifier returning the last category whose score is maximal
DetectJobCategoryLast(job_text) ==
    LET score == [c \in Range(category_names) |-> CategoryScore(c, job_text)]
        last == CHOOSE i \in DOMAIN category_names :
                    /\ \A j \in DOMAIN category_names :
                          score[category_names[j]] <= score[category_names[i]]
                    /\ \A j \in (i + 1)..Len(category_names) :
                          score[category_names[j]] < score[category_names[i]]
    IN  category_names[last]

\* _detect_job_category(job_text): max() over the items of category_scores
\* returns the first category, in insertion order, whose score is maximal
DetectJobCategory(job_text) ==
    LET score == [c \in Range(category_names) |-> CategoryScore(c, job_text)]
        first == CHOOSE i \in DOMAIN category_names :
                    /\ \A j \in DOMAIN category_names :
                          score[category_names[j]] <= score[category_names[i]]
                    /\ \A j \in 1..(i - 1) :
                          score[category_names[j]] < score[category_names[i]]
    IN  category_names[first]

(***************************************************************************)
(* Job description analyzer                                                *)
(***************************************************************************)
\* list(set(items)): the elements of a set in the order its iteration gives,
\* which the hashing of str leaves open: any order
RECURSIVE ListsOfSet(_)
ListsOfSet(S) ==
    IF S = {} THEN {<<>>}
    ELSE UNION {{<<x>> \o rest : rest \in ListsOfSet(S \ {x})} : x \in S}

\* the slice items[:n]
Take(items, n) == SubSeq(items, 1, IF Len(items) < n THEN Len(items) ELSE n)

\* _extract_skills_by_category: the teaching denylist
teaching_denylist == {<<"d","o","c","k","e","r">>, <<"k","u","b","e","r","n","e","t","e","s">>, <<"a","w","s">>, <<"t","e","r","r","a","f","o","r","m">>}

\* found_skills without the teaching denylist
FoundSkillsUnfiltered(text, job_category) ==
    LET TechHit(skill) == IsSkillMentioned(skill, text)
        TeachingHit(skill) ==
            \E variant \in {skill, ReplaceSpace(skill, <<>>), ReplaceSpace(skill, <<"-">>)} :
                Contains(text, variant)
        ConceptHit(concept) == Contains(text, Lower(concept))
    IN  Filter(tech_skills, TechHit)
        \o (IF job_category = "teaching" THEN Filter(teaching_skills, TeachingHit) ELSE <<>>)
        \o Filter(business_concepts, ConceptHit)

\* _extract_skills_by_category(text, job_category): found_skills before the
\* de-duplication
FoundSkills(text, job_category) ==
    LET TechHit(skill) ==
            /\ IsSkillMentioned(skill, text)
            /\ ~(job_category = "teaching" /\ skill \in teaching_denylist)
        TeachingHit(skill) ==
            \E variant \in {skill, ReplaceSpace(skill, <<>>), ReplaceSpace(skill, <<"-">>)} :
                Contains(text, variant)
        ConceptHit(concept) == Contains(text, Lower(concept))
    IN  Filter(tech_skills, TechHit)
        \o (IF job_category = "teaching" THEN Filter(teaching_skills, TeachingHit) ELSE <<>>)
        \o Filter(business_concepts, ConceptHit)

\* _extract_skills_by_category: the lists list(set(found_skills)) may be
ExtractSkillsByCategory(text, job_category) ==
    ListsOfSet(Range(FoundSkills(text, job_category)))

\* _extract_basic_concepts: teaching_concepts
teaching_concepts ==
    <<<<"e","d","u","c","a","t","i","o","n">>,
      <<"l","e","a","r","n","i","n","g">>,
      <<"s","t","u","d","e","n","t","s">>,
      <<"c","u","r","r","i","c","u","l","u","m">>,
      <<"a","s","s","e","s","s","m","e","n","t">>,
      <<"c","l","a","s","s","r","o","o","m">>,
      <<"i","n","s","t","r","u","c","t","i","o","n">>,
      <<"p","e","d","a","g","o","g","y">>,
      <<"a","c","a","d","e","m","i","c">>>>

BasicConceptsLimit == 10

\* _extract_basic_concepts(text, job_category): the lists
\* list(set(concepts))[:10] may be
ExtractBasicConcepts(text, job_category) ==
    LET Hit(concept) == Contains(text, concept)
        concepts == (IF job_category = "teaching" THEN Filter(teaching_concepts, Hit)
                     ELSE <<>>)
                    \o Filter(business_concepts, Hit)
    IN  {Take(l, BasicConceptsLimit) : l \in ListsOfSet(Range(concepts))}

\* len(text.split()): the number of maximal runs of non-whitespace
SplitCount(text) ==
    Cardinality({a \in 1..Len(text) :
                    ~IsSpace(text[a]) /\ (a = 1 \/ IsSpace(text[a - 1]))})

concept_entity_labels == {"ORG", "PRODUCT", "WORK_OF_ART", "LANGUAGE"}

KeyConceptsLimit == 20

\* _extract_key_concepts without set(): concepts[:20]
ExtractKeyConceptsWithDuplicates(doc) ==
    LET EntHit(ent) == ent.label \in concept_entity_labels
        ChunkHit(chunk) == 2 <= SplitCount(chunk) /\ SplitCount(chunk) <= 4
        text_lower == Lower(doc.text)
        ConceptHit(concept) == Contains(text_lower, Lower(concept))
        ents == Filter(doc.ents, EntHit)
        chunks == Filter(doc.noun_chunks, ChunkHit)
        concepts == [i \in DOMAIN ents |-> Lower(ents[i].text)]
                    \o [i \in DOMAIN chunks |-> Lower(chunks[i])]
                    \o Filter(business_concepts, ConceptHit)
    IN  {Take(concepts, KeyConceptsLimit)}

\* _extract_key_concepts(doc): the lists list(set(concepts))[:20] may be
\* a doc is [text, ents, noun_chunks]: ents a list of [label, text],
\* noun_chunks a list of texts
ExtractKeyConcepts(doc) ==
    LET EntHit(ent) == ent.label \in concept_entity_labels
        ChunkHit(chunk) == 2 <= SplitCount(chunk) /\ SplitCount(chunk) <= 4
        text_lower == Lower(doc.text)
        ConceptHit(concept) == Contains(text_lower, Lower(concept))
        ents == Filter(doc.ents, EntHit)
        chunks == Filter(doc.noun_chunks, ChunkHit)
        concepts == [i \in DOMAIN ents |-> Lower(ents[i].text)]
                    \o [i \in DOMAIN chunks |-> Lower(chunks[i])]
                    \o Filter(business_concepts, ConceptHit)
    IN  {Take(l, KeyConceptsLimit) : l \in ListsOfSet(Range(concepts))}

\* _extract_experience_years: patterns, each split at its capture group (\d+)
years_patterns ==
    <<[pre |-> <<>>,
       post |-> <<Opt(<<"+">>), Ws0, Lit({<<"y","e","a","r">>}), Opt(<<"s">>), Ws0, OptS(<<"o","f">>), Lit({<<"e","x","p","e","r","i","e","n","c","e">>})>>],
      [pre |-> <<>>,
       post |-> <<Opt(<<"+">>), Ws0, Lit({<<"y","e","a","r">>}), Opt(<<"s">>), Ws0, Lit({<<"i","n">>})>>],
      [pre |-> <<Lit({<<"m","i","n","i","m","u","m">>}), Ws0, OptS(<<"o","f">>)>>,
       post |-> <<Ws0, Lit({<<"y","e","a","r">>}), Opt(<<"s">>)>>],
      [pre |-> <<Lit({<<"a","t">>}), Ws0, Lit({<<"l","e","a","s","t">>}), Ws0>>,
       post |-> <<Ws0, Lit({<<"y","e","a","r">>}), Opt(<<"s">>)>>]>>

\* int() of a run of digits
DigitValue(c) ==
    CASE c = "0" -> 0 [] c = "1" -> 1 [] c = "2" -> 2 [] c = "3" -> 3 [] c = "4" -> 4
      [] c = "5" -> 5 [] c = "6" -> 6 [] c = "7" -> 7 [] c = "8" -> 8 [] c = "9" -> 9

RECURSIVE ToInt(_)
ToInt(digits) ==
    IF digits = <<>> THEN 0
    ELSE 10 * ToInt(SubSeq(digits, 1, Len(digits) - 1)) + DigitValue(digits[Len(digits)])

\* the spans <<q, r>> of the group (\d+) in the matches of a pattern that start at p
CaptureSpans(pattern, text, p) ==
    UNION {{<<q, r>> : r \in {e \in ItemEnds(Digits, text, q) :
                                 MatchEnds(pattern.post, 1, text, {e}) # {}}} :
           q \in MatchEnds(pattern.pre, 1, text, {p})}

\* re.findall(pattern, text) is not empty
YearsPatternMatches(pattern, text) ==
    \E p \in 0..Len(text) : CaptureSpans(pattern, text, p) # {}

\* re.findall(pattern, text)[0]: the group of the leftmost match, its digits
\* taken greedily
FirstYearsCapture(pattern, text) ==
    LET starts == {a \in 0..Len(text) : CaptureSpans(pattern, text, a) # {}}
        p == CHOOSE a \in starts : \A b \in starts : a <= b
        spans == CaptureSpans(pattern, text, p)
        span == CHOOSE s \in spans : \A u \in spans : u[2] <= s[2]
    IN  Slice(text, span[1], span[2] - span[1])

\* the years read from the match that starts earliest in the text, whatever
\* its pattern
ExtractExperienceYearsEarliest(text) ==
    LET text_lower == Lower(text)
        starts == [k \in DOMAIN years_patterns |->
                      {a \in 0..Len(text_lower) :
                          CaptureSpans(years_patterns[k], text_lower, a) # {}}]
        matching == {k \in DOMAIN years_patterns : starts[k] # {}}
        least == [k \in matching |-> CHOOSE a \in starts[k] : \A b \in starts[k] : a <= b]
    IN  IF matching = {} THEN 0
        ELSE ToInt(FirstYearsCapture(
                 years_patterns[CHOOSE k \in matching : \A j \in matching : least[k] <= least[j]],
                 text_lower))

\* the years read from the first run of digits of the text
ExtractExperienceYearsAnyNumber(text) ==
    LET starts == {a \in 0..Len(text) : ItemEnds(Digits, text, a) # {}}
        p == CHOOSE a \in starts : \A b \in starts : a <= b
        ends == ItemEnds(Digits, text, p)
    IN  IF starts = {} THEN 0
        ELSE ToInt(Slice(text, p, (CHOOSE e \in ends : \A u \in ends : u <= e) - p))

\* _extract_experience_years(text)
ExtractExperienceYears(text) ==
    LET text_lower == Lower(text)
        matching == {k \in DOMAIN years_patterns :
                        YearsPatternMatches(years_patterns[k], text_lower)}
    IN  IF matching = {} THEN 0
        ELSE LET first == CHOOSE k \in matching : \A j \in matching : k <= j
             IN  ToInt(FirstYearsCapture(years_patterns[first], text_lower))

\* _extract_company_name(doc)
ExtractCompanyName(doc) ==
    LET orgs == {i \in DOMAIN doc.ents : doc.ents[i].label = "ORG"}
    IN  IF orgs = {} THEN <<>>
        ELSE doc.ents[CHOOSE i \in orgs : \A j \in orgs : i <= j].text

\* str.strip()
RECURSIVE StripLeft(_)
StripLeft(text) ==
    IF text # <<>> /\ IsSpace(Head(text)) THEN StripLeft(Tail(text)) ELSE text

RECURSIVE StripRight(_)
StripRight(text) ==
    IF text # <<>> /\ IsSpace(text[Len(text)])
    THEN StripRight(SubSeq(text, 1, Len(text) - 1)) ELSE text

Strip(text) == StripRight(StripLeft(text))

\* text.split('\n')[0]
FirstLine(text) ==
    LET breaks == {i \in DOMAIN text : text[i] = "\n"}
    IN  IF breaks = {} THEN text
        ELSE SubSeq(text, 1, (CHOOSE i \in breaks : \A j \in breaks : i <= j) - 1)

TitleLengthLimit == 100

\* _extract_job_title(text)
ExtractJobTitle(text) ==
    LET first_line == Strip(FirstLine(text))
    IN  IF Len(first_line) < TitleLengthLimit THEN first_line ELSE <<>>

\* the characters U+2022 and U+00B7, each one character of a text
Bullet    == "U+2022"
MiddleDot == "U+00B7"

\* _extract_responsibilities: the part of each bullet pattern in front of
\* \s*(.+?)(?=\n|$): where it can end when the match starts at p
\*   1  a bullet glyph, a middle dot or "-"   2  \d+\.   3  ^\s*[\*-] (re.MULTILINE)
BulletHeadEnds(kind, text, p) ==
    CASE kind = 1 -> IF p < Len(text) /\ text[p + 1] \in {Bullet, MiddleDot, "-"}
                     THEN {p + 1} ELSE {}
      [] kind = 2 -> {r + 1 : r \in {e \in ItemEnds(Digits, text, p) :
                                        e < Len(text) /\ text[e + 1] = "."}}
      [] kind = 3 -> IF p = 0 \/ text[p] = "\n"
                     THEN {q + 1 : q \in {e \in RunEnds(text, p, IsSpace) :
                                             e < Len(text) /\ text[e + 1] \in {"*", "-"}}}
                     ELSE {}

\* the starts of the group (.+?) behind a head that ends at h: \s* gives back
\* whitespace until a character other than a newline follows
BulletBodyStarts(text, h) ==
    {q \in RunEnds(text, h, IsSpace) : q < Len(text) /\ text[q + 1] # "\n"}

\* (.+?)(?=\n|$) from q on: at least one character, up to the end of the line
GroupEnd(text, q) ==
    CHOOSE e \in (q + 1)..Len(text) :
        /\ e = Len(text) \/ text[e + 1] = "\n"
        /\ \A k \in (q + 1)..(e - 1) : text[k + 1] # "\n"

\* the greatest element of a set of positions, as a set: empty for the empty set
Greatest(S) == {a \in S : \A b \in S : b <= a}

\* the span <<q, r>> of the group in the match of a bullet pattern at p, as a
\* set: empty when the pattern does not match at p
BulletSpan(kind, text, p) ==
    {<<q, GroupEnd(text, q)>> :
        q \in Greatest(UNION {BulletBodyStarts(text, h) : h \in BulletHeadEnds(kind, text, p)})}

\* re.findall(pattern, text, re.MULTILINE) from position pos on: the groups
\* of the matches found left to right, none overlapping
RECURSIVE BulletFindAll(_, _, _)

\* the group of a match with the given span, and the scan behind the match
BulletFindAllAfter(kind, text, span) ==
    <<Slice(text, span[1], span[2] - span[1])>> \o BulletFindAll(kind, text, span[2])

\* the scan at pos, spans the match found there (none: the scan moves on by one)
BulletFindAllAt(kind, text, pos, spans) ==
    IF spans = {} THEN BulletFindAll(kind, text, pos + 1)
    ELSE BulletFindAllAfter(kind, text, CHOOSE s \in spans : TRUE)

BulletFindAll(kind, text, pos) ==
    IF pos > Len(text) THEN <<>>
    ELSE BulletFindAllAt(kind, text, pos, BulletSpan(kind, text, pos))

ResponsibilitiesLimit == 10

\* _extract_responsibilities(text)
ExtractResponsibilities(text) ==
    Take(BulletFindAll(1, text, 0) \o BulletFindAll(2, text, 0) \o BulletFindAll(3, text, 0),
         ResponsibilitiesLimit)

(***************************************************************************)
(* Bounded inputs of rank_profile_assets                                   *)
(***************************************************************************)
\* the most required_skills and key_concepts of a JobAnalysis
MaxSkills   == 2
MaxConcepts == 1
\* the most entries of a profile, projects and experiences together (a str
\* or a None in place of a list counts as one)
MaxAssets   == 2

\* the lists without repetition of at most n elements of S
ListsUpTo(S, n) ==
    UNION {{f \in [1..k -> S] : \A i, j \in 1..k : i # j => f[i] # f[j]} : k \in 0..n}

\* the lists of at most n elements of S
SeqsUpTo(S, n) == UNION {[1..k -> S] : k \in 0..n}

\* "react" (word-bounded), "c" (contextual), "node.js" (substring)
SkillPool == {<<"r","e","a","c","t">>, <<"c">>, <<"n","o","d","e",".","j","s">>}

\* "agile"
ConceptPool == {<<"a","g","i","l","e">>}

JobAnalysisOf(skills, concepts) ==
    [required_skills |-> skills,
     key_concepts |-> concepts,
     required_experience_years |-> 0,
     company_name |-> <<>>,
     job_title |-> <<>>,
     key_responsibilities |-> <<>>]

JobAnalyses ==
    {JobAnalysisOf(s, c) : s \in ListsUpTo(SkillPool, MaxSkills),
                           c \in ListsUpTo(ConceptPool, MaxConcepts)}

ProjectPool ==
    { \* {'title': 'Agile React', 'description': 'dashboard'}
      DictEntry(<<<<k_title, StrVal(<<"A","g","i","l","e"," ","R","e","a","c","t">>)>>,
                  <<k_description, StrVal(<<"d","a","s","h","b","o","a","r","d">>)>>>>),
      \* {'title': 'Project X', 'description': 'Built a'}
      DictEntry(<<<<k_title, StrVal(<<"P","r","o","j","e","c","t"," ","X">>)>>,
                  <<k_description, StrVal(<<"B","u","i","l","t"," ","a">>)>>>>),
      \* {'title': 'Project X', 'description': 'Built a React dashboard'}
      DictEntry(<<<<k_title, StrVal(<<"P","r","o","j","e","c","t"," ","X">>)>>,
                  <<k_description, StrVal(<<"B","u","i","l","t"," ","a"," ","R","e","a","c","t"," ","d","a","s","h","b","o","a","r","d">>)>>>>),
      \* {'name': 'C', 'description': 'c'}
      DictEntry(<<<<k_name, StrVal(<<"C">>)>>,
                  <<k_description, StrVal(<<"c">>)>>>>),
      \* {'name': 'C', 'description': 'c programming in embedded systems'}
      DictEntry(<<<<k_name, StrVal(<<"C">>)>>,
                  <<k_description, StrVal(<<"c"," ","p","r","o","g","r","a","m","m","i","n","g"," ","i","n"," ","e","m","b","e","d","d","e","d"," ","s","y","s","t","e","m","s">>)>>>>),
      \* {'title': 'Api', 'description': None}
      DictEntry(<<<<k_title, StrVal(<<"A","p","i">>)>>,
                  <<k_description, NoneVal>>>>) }

ExperiencePool ==
    { \* {'position': '', 'role': 'Dev', 'description': 'node js'}
      DictEntry(<<<<k_position, StrVal(<<>>)>>,
                  <<k_role, StrVal(<<"D","e","v">>)>>,
                  <<k_description, StrVal(<<"n","o","d","e"," ","j","s">>)>>>>),
      \* {'role': 'Dev', 'title': None}
      DictEntry(<<<<k_role, StrVal(<<"D","e","v">>)>>,
                  <<k_title, NoneVal>>>>),
      \* 'a node.js service'
      StrEntry(<<"a"," ","n","o","d","e",".","j","s"," ","s","e","r","v","i","c","e">>) }

\* the values of the 'projects' key: absent, None, a str, a list
ProjectFields ==
    {Absent, NoneField, StrField(<<"B","u","i","l","t"," ","a"," ","R","e","a","c","t"," ","a","p","p"," ","o","n"," ","n","o","d","e",".","j","s">>)}
    \cup {ListField(es) : es \in SeqsUpTo(ProjectPool, MaxAssets)}

\* the values of the 'experiences' key
ExperienceFields ==
    {Absent, NoneField, StrField(<<"a","g","i","l","e"," ","n","o","d","e",".","j","s"," ","w","o","r","k">>)}
    \cup {ListField(es) : es \in SeqsUpTo(ExperiencePool, MaxAssets)}

\* the size of a field: the entries of a list, one for a str or a None
FieldSize(field) ==
    IF field.t = "list" THEN Len(field.items)
    ELSE IF field.t = "absent" THEN 0 ELSE 1

Profiles ==
    {pr \in [projects : ProjectFields, experiences : ExperienceFields] :
        FieldSize(pr.projects) + FieldSize(pr.experiences) <= MaxAssets}

(***************************************************************************)
(* Bounded inputs of analyze_job_description                               *)
(***************************************************************************)
Postings ==
    {
      \* ''
      <<>>,
      \* 'Senior Python Developer. Requires 5+ years experience with Python and AWS.'
      <<"S","e","n","i","o","r"," ","P","y","t","h","o","n"," ","D","e","v","e","l","o","p","e","r","."," ","R","e","q","u","i","r","e","s"," ","5","+"," ","y","e","a","r","s"," ","e","x","p","e","r","i","e","n","c","e"," ","w","i","t","h"," ","P","y","t","h","o","n"," ","a","n","d"," ","A","W","S",".">>,
      \* 'classroom teacher'
      <<"c","l","a","s","s","r","o","o","m"," ","t","e","a","c","h","e","r">>,
      \* '\nData Analyst\n- build agile dashboards'
      <<"\n","D","a","t","a"," ","A","n","a","l","y","s","t","\n","-"," ","b","u","i","l","d"," ","a","g","i","l","e"," ","d","a","s","h","b","o","a","r","d","s">>,
      \* 'at least 7 years. 3 years of experience in R programming'
      <<"a","t"," ","l","e","a","s","t"," ","7"," ","y","e","a","r","s","."," ","3"," ","y","e","a","r","s"," ","o","f"," ","e","x","p","e","r","i","e","n","c","e"," ","i","n"," ","R"," ","p","r","o","g","r","a","m","m","i","n","g">>,
      \* 'Teach python and docker to students'
      <<"T","e","a","c","h"," ","p","y","t","h","o","n"," ","a","n","d"," ","d","o","c","k","e","r"," ","t","o"," ","s","t","u","d","e","n","t","s">>,
      \* 'Nurse for ward 12, 2 year contract'
      <<"N","u","r","s","e"," ","f","o","r"," ","w","a","r","d"," ","1","2",","," ","2"," ","y","e","a","r"," ","c","o","n","t","r","a","c","t">>,
      \* 'Agile\n-a\n-b\n-c\n-d\n-e\n-f'
      <<"A","g","i","l","e","\n","-","a","\n","-","b","\n","-","c","\n","-","d","\n","-","e","\n","-","f">>,
      \* 'C++ developer'
      <<"C","+","+"," ","d","e","v","e","l","o","p","e","r">> }

\* the first whitespace-delimited token of a text
FirstToken(text) ==
    LET s == StripLeft(text)
        ends == {i \in DOMAIN s : IsSpace(s[i])}
    IN  IF ends = {} THEN s
        ELSE SubSeq(s, 1, (CHOOSE i \in ends : \A j \in ends : i <= j) - 1)

\* doc = self.nlp(job_description): the entities and noun chunks are the
\* statistical model's choice; here at most one entity (the first token, as
\* an organisation or a date) and at most one noun chunk (the first
\* non-blank line)
Docs(text) ==
    LET token == FirstToken(text)
        line == Strip(FirstLine(StripLeft(text)))
        ents == {<<>>} \cup (IF token = <<>> THEN {}
                             ELSE {<<[label |-> l, text |-> token]>> : l \in {"ORG", "DATE"}})
        chunks == {<<>>} \cup (IF line = <<>> THEN {} ELSE {<<line>>})
    IN  {[text |-> text, ents |-> e, noun_chunks |-> c] : e \in ents, c \in chunks}

\* JobAnalysis(...): one for each order of the two de-duplicated lists
JobAnalysesOf(skills, concepts, years, company, title, responsibilities) ==
    {[required_skills |-> s,
      key_concepts |-> k,
      required_experience_years |-> years,
      company_name |-> company,
      job_title |-> title,
      key_responsibilities |-> responsibilities] : s \in skills, k \in concepts}

\* analyze_job_description(text) from the category on, initialize() having
\* left self.nlp loaded or None
AnalysesOfCategory(text, nlp_after, job_category) ==
    IF nlp_after = "loaded"
    THEN UNION {JobAnalysesOf(ExtractSkillsByCategory(Lower(text), job_category),
                              ExtractKeyConcepts(doc),
                              ExtractExperienceYears(text),
                              ExtractCompanyName(doc),
                              ExtractJobTitle(text),
                              ExtractResponsibilities(text)) : doc \in Docs(text)}
    ELSE JobAnalysesOf(ExtractSkillsByCategory(Lower(text), job_category),
                       ExtractBasicConcepts(Lower(text), job_category),
                       ExtractExperienceYears(text), <<>>, <<>>, <<>>)

\* the JobAnalysis values analyze_job_description(text) can construct
AnalysesWith(text, nlp_after) ==
    AnalysesOfCategory(text, nlp_after, DetectJobCategory(Lower(text)))

\* the same, tabulated over the postings
Analyses == [text \in Postings |-> [n \in {"loaded", "None"} |-> AnalysesWith(text, n)]]

\* the profiles of the calls that follow an analysis
PipelineProfiles ==
    {pr \in Profiles :
        \/ pr.projects = Absent /\ pr.experiences = Absent
        \/ pr.projects.t = "str" /\ pr.experiences.t = "str"
        \/ pr.projects.t = "list" /\ Len(pr.projects.items) = 1
           /\ pr.experiences = NoneField}

(***************************************************************************)
(* State                                                                   *)
(*   nlp              the selector's spaCy model: "None" or "loaded"       *)
(*   load_count       the number of spacy.load calls that returned a model *)
(*   job_description  the posting of the last analysis call                *)
(*   job_analysis     the JobAnalysis the caller holds                     *)
(*   user_profile     the profile of the last ranking call                 *)
(*   args             the arguments of a call of one of the helper methods *)
(*   call             the last operation called                            *)
(*   result           how it ended: returned (with what it returned) or    *)
(*                    raised                                               *)
(***************************************************************************)
NoResult == [status |-> "none", value |-> <<>>]

EmptyProfile == [projects |-> Absent, experiences |-> Absent]

\* IntelligentSelectorLite(): self.nlp = None
Init ==
    /\ nlp = "None"
    /\ load_count = 0
    /\ job_description = <<>>
    /\ job_analysis = JobAnalysisOf(<<>>, <<>>)
    /\ user_profile = EmptyProfile
    /\ args = <<>>
    /\ call = "none"
    /\ result = NoResult

\* what spacy.load and the download can do in initialize():
\*   "loaded"           spacy.load returns the model
\*   "downloaded"       OSError, the download succeeds, spacy.load returns it
\*   "download_failed"  OSError, the download or the second load raises
\*   "load_error"       spacy.load raises another exception
LoadOutcomes == {"loaded", "downloaded", "download_failed", "load_error"}

\* self.nlp after initialize()
NlpAfterInitialize(outcome) ==
    IF nlp # "None" THEN nlp
    ELSE IF outcome \in {"loaded", "downloaded"} THEN "loaded" ELSE "None"

\* initialize() calling spacy.load whether or not self.nlp is set
LoadsAfterInitializeEveryCall(outcome) ==
    IF outcome \in {"loaded", "downloaded"} THEN load_count + 1 ELSE load_count

\* the spacy.load calls that returned a model, after initialize()
LoadsAfterInitialize(outcome) ==
    IF nlp = "None" /\ outcome \in {"loaded", "downloaded"}
    THEN load_count + 1 ELSE load_count

\* initialize()
Initialize(outcome) ==
    /\ nlp' = NlpAfterInitialize(outcome)
    /\ load_count' = LoadsAfterInitialize(outcome)
    /\ call' = "initialize"
    /\ result' = Returned(TRUE)
    /\ UNCHANGED <<job_description, job_analysis, user_profile, args>>

\* analyze_job_description(text); backend_raises: self.nlp(job_description)
\* raises, which nothing in the method catches
AnalyzeJobDescription(text, outcome, backend_raises) ==
    LET nlp_after == NlpAfterInitialize(outcome)
    IN  /\ backend_raises => nlp_after = "loaded"
        /\ nlp' = nlp_after
        /\ load_count' = LoadsAfterInitialize(outcome)
        /\ job_description' = text
        /\ call' = "analyze_job_description"
        /\ IF backend_raises
           THEN result' = Raised /\ UNCHANGED job_analysis
           ELSE \E ja \in Analyses[text][nlp_after] :
                   job_analysis' = ja /\ result' = Returned(ja)
        /\ UNCHANGED <<user_profile, args>>

\* a ranking that empties the lists of the JobAnalysis it was given
RankProfileAssetsConsumingAnalysis(profile) ==
    /\ call' = "rank_profile_assets"
    /\ user_profile' = profile
    /\ result' = RankProfileAssetsResult(job_analysis, profile)
    /\ job_analysis' = [job_analysis EXCEPT !.required_skills = <<>>, !.key_concepts = <<>>]
    /\ UNCHANGED <<nlp, load_count, job_description, args>>

\* rank_profile_assets(job_analysis, profile)
RankProfileAssets(profile) ==
    /\ call' = "rank_profile_assets"
    /\ user_profile' = profile
    /\ result' = RankProfileAssetsResult(job_analysis, profile)
    /\ UNCHANGED <<nlp, load_count, job_description, job_analysis, args>>

Next ==
    \/ \E outcome \in LoadOutcomes : Initialize(outcome)
    \/ \E text \in Postings, outcome \in LoadOutcomes, backend_raises \in BOOLEAN :
          AnalyzeJobDescription(text, outcome, backend_raises)
    \/ \E profile \in PipelineProfiles : RankProfileAssets(profile)

Spec == Init /\ [][Next]_vars

\* the ranker as a function of its two arguments: every JobAnalysis and
\* every profile of the bounded sets, ranked once
InitRank ==
    /\ nlp = "None"
    /\ load_count = 0
    /\ job_description = <<>>
    /\ job_analysis \in JobAnalyses
    /\ user_profile \in Profiles
    /\ args = <<>>
    /\ call = "none"
    /\ result = NoResult

NextRank == call = "none" /\ RankProfileAssets(user_profile)

SpecRank == InitRank /\ [][NextRank]_vars

(***************************************************************************)
(* calculate_text_similarity as a function of its two arguments           *)
(***************************************************************************)
\* the longest text1 and the longest text2 (text2 can also be text1 itself)
MaxTextLen  == 3
MaxOtherLen == 2

\* two letters, one of them in both cases, a blank and a punctuation mark
SimilarityChars == {"a", "A", "b", " ", "!"}

SimilarityArgs ==
    {<<a, b>> : a \in SeqsUpTo(SimilarityChars, MaxTextLen),
                b \in SeqsUpTo(SimilarityChars, MaxOtherLen)}
    \cup {<<a, a>> : a \in SeqsUpTo(SimilarityChars, MaxTextLen)}

\* calculate_text_similarity(text1, text2)
CalculateTextSimilarityCall ==
    /\ call' = "calculate_text_similarity"
    /\ result' = Returned(CalculateTextSimilarity(args[1], args[2]))
    /\ UNCHANGED <<nlp, load_count, job_description, job_analysis, user_profile, args>>

InitSimilarity ==
    /\ nlp = "None"
    /\ load_count = 0
    /\ job_description = <<>>
    /\ job_analysis = JobAnalysisOf(<<>>, <<>>)
    /\ user_profile = EmptyProfile
    /\ args \in SimilarityArgs
    /\ call = "none"
    /\ result = NoResult

NextSimilarity == call = "none" /\ CalculateTextSimilarityCall

SpecSimilarity == InitSimilarity /\ [][NextSimilarity]_vars

(***************************************************************************)
(* Properties of rank_profile_assets                                       *)
(***************************************************************************)
\* a ranking call that returned; result.value is the list it returned
RankReturned == call = "rank_profile_assets" /\ result.status = "returned"

\* the scored assets in the order of the normalized input (all projects,
\* then all experiences), before the sort
ScoredInput ==
    LET all_assets == AllAssets(user_profile)
    IN  [i \in DOMAIN all_assets |-> ScoreAsset(all_assets[i], job_analysis)]

\* the lowercased 'title + space + description' of a ranked asset
TextOf(a) == Lower(Str(a.title) \o <<" ">> \o Str(a.description))

\* the required skills the Skill Matcher finds in a text, in JobAnalysis order
SkillsFoundIn(text) ==
    SelectSeq(job_analysis.required_skills, LAMBDA sk : IsSkillMentioned(sk, text))

\* the key concepts that are lowercase substrings of a text, in JobAnalysis order
ConceptsFoundIn(text) ==
    SelectSeq(job_analysis.key_concepts, LAMBDA kc : Contains(text, Lower(kc)))

\* the Jaccard similarity of a text and the job text, as a fraction
JaccardWithJob(text) ==
    LET A == Words(text)
        B == Words(Lower(Join(job_analysis.required_skills) \o <<" ">>
                         \o Join(job_analysis.key_concepts)))
    IN  IF A = {} \/ B = {} THEN Frac(0, 1)
        ELSE Frac(Cardinality(A \cap B), Cardinality(A \cup B))

\* C1: the list returned by rank_profile_assets is sorted by score,
\* non-increasing: for every adjacent pair (a, b), a.score >= b.score.
C1_SortedByScore ==
    RankReturned =>
        \A i \in 1..(Len(result.value) - 1) :
            FracLeq(result.value[i + 1].score, result.value[i].score)

\* the input held a lower-scored asset in front of a higher-scored one
C1_Witness ==
    /\ RankReturned
    /\ \E i, j \in DOMAIN ScoredInput :
          i < j /\ FracLt(ScoredInput[i].score, ScoredInput[j].score)

SameScore(assets, score) == SelectSeq(assets, LAMBDA x : FracEq(x.score, score))

\* C2: the ranking is stable: the assets of equal score appear in the output
\* in the order they have in the normalized input (projects in profile
\* order, then experiences in profile order).
C2_StableRanking ==
    RankReturned =>
        LET scored == ScoredInput
        IN  /\ Len(result.value) = Len(scored)
            /\ \A k \in DOMAIN scored :
                  SameScore(result.value, scored[k].score)
                      = SameScore(scored, scored[k].score)

\* two different assets tie, behind an asset of another score to sort past
C2_Witness ==
    /\ RankReturned
    /\ \E i, j \in DOMAIN ScoredInput :
          /\ i < j
          /\ FracEq(ScoredInput[i].score, ScoredInput[j].score)
          /\ ScoredInput[i] # ScoredInput[j]

\* C3: every ProfileAsset of a ranking has 0.0 <= score <= 10.0, also under
\* a JobAnalysis with empty required_skills and key_concepts.
C3_ScoreInRange ==
    RankReturned =>
        \A i \in DOMAIN result.value :
            LET sc == result.value[i].score
            IN  sc.d > 0 /\ 0 <= sc.n /\ sc.n <= 10 * sc.d

\* assets ranked under a JobAnalysis without required_skills and key_concepts
C3_Witness ==
    /\ RankReturned
    /\ result.value # <<>>
    /\ job_analysis.required_skills = <<>>
    /\ job_analysis.key_concepts = <<>>

\* C4: score = clamp(raw / max_possible * 10, 0, 10), with
\* raw = 2 * (required skills the Skill Matcher finds in the lowercased
\* 'title + space + description') + 1 * (key concepts that are lowercase
\* substrings of it) + 3 * similarity(it, the job text) and
\* max_possible = 2 * |required_skills| + |key_concepts| + 3.
C4_ScoreFormula ==
    RankReturned =>
        \A i \in DOMAIN result.value :
            LET text == TextOf(result.value[i])
                sim  == JaccardWithJob(text)
                \* raw as a fraction over sim.d
                rawn == (2 * Len(SkillsFoundIn(text)) + Len(ConceptsFoundIn(text))) * sim.d
                        + 3 * sim.n
                maxp == 2 * Len(job_analysis.required_skills)
                        + Len(job_analysis.key_concepts) + 3
                unclamped == Frac(10 * rawn, sim.d * maxp)
                expected == IF unclamped.n < 0 THEN Frac(0, 1)
                            ELSE IF unclamped.n > 10 * unclamped.d THEN Frac(10, 1)
                            ELSE unclamped
            IN  FracEq(result.value[i].score, expected)

\* an asset with a skill hit, a concept hit and a positive similarity
C4_Witness ==
    /\ RankReturned
    /\ \E i \in DOMAIN result.value :
          LET text == TextOf(result.value[i])
          IN  /\ SkillsFoundIn(text) # <<>>
              /\ ConceptsFoundIn(text) # <<>>
              /\ JaccardWithJob(text).n > 0

\* C5: matching_skills is exactly the list of required skills counted in the
\* skill term of the asset's score and matching_concepts the list of key
\* concepts counted in the concept term, also for a skill or concept that
\* occurs only in the title.
C5_MatchingExplainsScore ==
    RankReturned =>
        \A i \in DOMAIN result.value :
            /\ result.value[i].matching_skills = SkillsFoundIn(TextOf(result.value[i]))
            /\ result.value[i].matching_concepts = ConceptsFoundIn(TextOf(result.value[i]))

RECURSIVE IsSubsequence(_, _)
IsSubsequence(a, b) ==
    IF a = <<>> THEN TRUE
    ELSE IF b = <<>> THEN FALSE
    ELSE IF Head(a) = Head(b) THEN IsSubsequence(Tail(a), Tail(b))
    ELSE IsSubsequence(a, Tail(b))

\* C6: every element of matching_skills is a required skill and every
\* element of matching_concepts a key concept of the JobAnalysis, each
\* listed in the order of the JobAnalysis.
C6_MatchingFromJobAnalysis ==
    RankReturned =>
        \A i \in DOMAIN result.value :
            /\ IsSubsequence(result.value[i].matching_skills, job_analysis.required_skills)
            /\ IsSubsequence(result.value[i].matching_concepts, job_analysis.key_concepts)

\* an asset matches two skills that the description names in the other order,
\* and a concept
C6_Witness ==
    /\ RankReturned
    /\ \E i \in DOMAIN result.value :
          /\ result.value[i].matching_skills = <<<<"n","o","d","e",".","j","s">>,
                                                   <<"r","e","a","c","t">>>>
    /\ \E i \in DOMAIN result.value : result.value[i].matching_concepts # <<>>

\* b.description is a.description with text appended, nothing else changed
DescriptionExtended(a, b) ==
    /\ a.title = b.title
    /\ Len(a.description.s) < Len(b.description.s)
    /\ SubSeq(b.description.s, 1, Len(a.description.s)) = a.description.s

\* the Skill Matcher detects one more required skill in b than in a
OneMoreSkill(a, b) ==
    Len(SkillsFoundIn(TextOf(b))) = Len(SkillsFoundIn(TextOf(a))) + 1

\* C7 (as stated): extending the description so that one more required
\* skill is detected never lowers the score.
C7_MonotonicInSkillMentions ==
    RankReturned =>
        \A i, j \in DOMAIN result.value :
            (DescriptionExtended(result.value[i], result.value[j])
             /\ OneMoreSkill(result.value[i], result.value[j]))
            => FracLeq(result.value[i].score, result.value[j].score)

\* C7 (amended): extending the description so that one more required skill
\* is detected never lowers the score when the similarity of the asset text
\* to the job text does not fall, and in every case the new score is at
\* least the old score minus 10 / max_possible.
C7_MonotonicUpToSimilarity ==
    RankReturned =>
        \A i, j \in DOMAIN result.value :
            (DescriptionExtended(result.value[i], result.value[j])
             /\ OneMoreSkill(result.value[i], result.value[j]))
            => LET a == result.value[i]
                   b == result.value[j]
                   maxp == 2 * Len(job_analysis.required_skills)
                           + Len(job_analysis.key_concepts) + 3
               IN  /\ FracLeq(JaccardWithJob(TextOf(a)), JaccardWithJob(TextOf(b)))
                        => FracLeq(a.score, b.score)
                   \* a.score - 10/maxp <= b.score
                   /\ FracLeq(Frac(a.score.n * maxp - 10 * a.score.d, a.score.d * maxp),
                              b.score)

\* an asset and its extension with one more skill and no lower similarity
C7_Witness ==
    /\ RankReturned
    /\ \E i, j \in DOMAIN result.value :
          /\ DescriptionExtended(result.value[i], result.value[j])
          /\ OneMoreSkill(result.value[i], result.value[j])
          /\ FracLeq(JaccardWithJob(TextOf(result.value[i])),
                     JaccardWithJob(TextOf(result.value[j])))
          /\ FracLt(result.value[i].score, result.value[j].score)

\* C8: rank_profile_assets never raises: for every profile it returns a list
\* of ProfileAsset records, one per normalized asset.
C8_RankNeverRaises ==
    call = "rank_profile_assets" =>
        /\ result.status = "returned"
        /\ Len(result.value) = Len(AllAssets(user_profile))

\* C9: analyze_job_description never propagates an exception: when the
\* text-understanding backend raises on the posting, the call still returns
\* a JobAnalysis.
C9_AnalyzeNeverRaises ==
    call = "analyze_job_description" => result.status = "returned"

\* C10: every ProfileAsset of a ranking has a non-empty str title.
C10_TitleNeverEmpty ==
    RankReturned =>
        \A i \in DOMAIN result.value :
            result.value[i].title.t = "str" /\ result.value[i].title.s # <<>>

\* C11: ranking an empty profile ({}: neither a 'projects' nor an
\* 'experiences' key) against any JobAnalysis returns an empty list and
\* raises no error.
C11_EmptyProfileRanksEmpty ==
    (call = "rank_profile_assets" /\ user_profile = EmptyProfile)
        => result = Returned(<<>>)

\* the empty profile ranked against a JobAnalysis with skills and concepts
C11_Witness ==
    /\ call = "rank_profile_assets"
    /\ user_profile = EmptyProfile
    /\ job_analysis.required_skills # <<>>
    /\ job_analysis.key_concepts # <<>>

(***************************************************************************)
(* _detect_job_category as a function of the posting                       *)
(***************************************************************************)
\* the most words a posting of the classifier has
MaxWords == 3

\* keywords of five categories, one of them capitalised, one keyword of two
\* categories ('analyst') and a word that is no keyword
CategoryWords ==
    { <<"t","e","a","c","h","e","r">>,
      <<"N","u","r","s","e">>, <<"d","e","v","e","l","o","p","e","r">>,
      <<"a","n","a","l","y","s","t">>, <<"d","a","t","a">>,
      <<"s","t","a","f","f">> }

CategoryArgs == {<<Join(words)>> : words \in SeqsUpTo(CategoryWords, MaxWords)}

\* self._detect_job_category(job_description.lower())
DetectJobCategoryCall ==
    /\ call' = "_detect_job_category"
    /\ result' = Returned(DetectJobCategory(Lower(args[1])))
    /\ UNCHANGED <<nlp, load_count, job_description, job_analysis, user_profile, args>>

InitCategory ==
    /\ nlp = "None"
    /\ load_count = 0
    /\ job_description = <<>>
    /\ job_analysis = JobAnalysisOf(<<>>, <<>>)
    /\ user_profile = EmptyProfile
    /\ args \in CategoryArgs
    /\ call = "none"
    /\ result = NoResult

NextCategory == call = "none" /\ DetectJobCategoryCall

SpecCategory == InitCategory /\ [][NextCategory]_vars

ExpectedTitle(entry, keys, generic) ==
    LET held == {n \in DOMAIN keys :
                    entry.t = "dict" /\ \E i \in DOMAIN entry.items : entry.items[i][1] = keys[n]}
    IN  IF held = {} THEN StrVal(generic)
        ELSE DictGet(entry, keys[CHOOSE n \in held : \A m \in held : n <= m], NoneVal)

\* the record's 'description', else the textual rendering of the entry
ExpectedDescription(entry) ==
    IF entry.t = "dict" /\ \E i \in DOMAIN entry.items : entry.items[i][1] = k_description
    THEN DictGet(entry, k_description, NoneVal)
    ELSE StrVal(StrOfEntry(entry))

\* one <<title, description>> for the entry of a str field and for each entry
\* of a list field
ExpectedAssets(field, keys, generic) ==
    IF field.t = "str" THEN <<<<StrVal(generic), StrVal(field.s)>>>>
    ELSE IF field.t = "list"
    THEN [i \in DOMAIN field.items |->
             <<ExpectedTitle(field.items[i], keys, generic), ExpectedDescription(field.items[i])>>]
    ELSE <<>>

\* C27: the ranking holds exactly one asset for each entry of the profile,
\* with the title and the description that the normalization rules give it.
C27_OneAssetPerEntry ==
    call = "rank_profile_assets" =>
        /\ result.status = "returned"
        /\ LET expected ==
                   ExpectedAssets(user_profile.projects, <<k_title, k_name>>,
                                  <<"P","r","o","j","e","c","t">>)
                   \o ExpectedAssets(user_profile.experiences, <<k_position, k_title, k_role>>,
                                     <<"E","x","p","e","r","i","e","n","c","e">>)
               ranked == [i \in DOMAIN result.value |->
                             <<result.value[i].title, result.value[i].description>>]
           IN  /\ Len(ranked) = Len(expected)
               /\ \A x \in Range(expected) :
                     Cardinality({i \in DOMAIN ranked : ranked[i] = x})
                         = Cardinality({i \in DOMAIN expected : expected[i] = x})

(***************************************************************************)
(* _is_skill_mentioned as a function of the skill and the text             *)
(***************************************************************************)
\* the most words a text of the matcher has
MaxPhrase == 2

\* the three short tokens, two plain skills and a skill with punctuation
MatcherSkills ==
    { <<"r">>, <<"c">>, <<"g","o">>, <<"j","a","v","a">>,
      <<"p","y","t","h","o","n">>, <<"c","+","+">> }

\* the short tokens alone and inside other words, words of their contextual
\* patterns, a plain skill in another case and inside a longer word
MatcherWords ==
    { <<"r">>, <<"c">>, <<"g","o">>, <<"j","a","v","a">>, <<"c","+","+">>,
      <<"c","l","a","s","s","r","o","o","m">>, <<"g","o","l","a","n","g">>,
      <<"p","r","o","g","r","a","m","m","i","n","g">>, <<"P","y","t","h","o","n">>,
      <<"j","a","v","a","s","c","r","i","p","t">> }

MatcherArgs ==
    {<<skill, Join(words)>> : skill \in MatcherSkills,
                              words \in SeqsUpTo(MatcherWords, MaxPhrase)}

\* self._is_skill_mentioned(skill, text)
IsSkillMentionedCall ==
    /\ call' = "_is_skill_mentioned"
    /\ result' = Returned(IsSkillMentioned(args[1], args[2]))
    /\ UNCHANGED <<nlp, load_count, job_description, job_analysis, user_profile, args>>

InitMatcher ==
    /\ nlp = "None"
    /\ load_count = 0
    /\ job_description = <<>>
    /\ job_analysis = JobAnalysisOf(<<>>, <<>>)
    /\ user_profile = EmptyProfile
    /\ args \in MatcherArgs
    /\ call = "none"
    /\ result = NoResult

NextMatcher == call = "none" /\ IsSkillMentionedCall

SpecMatcher == InitMatcher /\ [][NextMatcher]_vars

(***************************************************************************)
(* Properties of _is_skill_mentioned                                       *)
(***************************************************************************)
\* a matcher call that returned; result.value is the truth value
MatcherReturned == call = "_is_skill_mentioned" /\ result.status = "returned"

ShortTokens == {<<"r">>, <<"c">>, <<"g","o">>}

\* the words of programming context of the model's texts: each contextual
\* pattern of a short token needs a word beside the token itself
ContextWords ==
    { <<"p","r","o","g","r","a","m","m","i","n","g">>, <<"p","y","t","h","o","n">>,
      <<"g","o","l","a","n","g">>, <<"c","+","+">>, <<"j","a","v","a">> }

\* the text holds the token between positions that are the text boundaries or
\* hold no letter, digit or underscore
OccursAsToken(text, token) ==
    \E i \in 0..(Len(text) - Len(token)) :
        /\ StartsAt(text, i, token)
        /\ i = 0 \/ ~IsWordChar(text[i])
        /\ i + Len(token) = Len(text) \/ ~IsWordChar(text[i + Len(token) + 1])

\* C17: for 'r', 'c' and 'go' the matcher returns true only if the text
\* matches a contextual pattern of the token; a text that holds the letters
\* inside other words ("classroom") and no word of programming context is
\* rejected.
C17_ShortTokensNeedContext ==
    (MatcherReturned /\ Lower(args[1]) \in ShortTokens) =>
        /\ result.value \in BOOLEAN
        /\ result.value =>
              \E k \in DOMAIN language_patterns(Lower(args[1])) :
                  Search(language_patterns(Lower(args[1]))[k], Lower(args[2]))
        /\ (\A w \in ContextWords : ~Contains(Lower(args[2]), w)) => ~result.value

\* "classroom" holds the letters of 'c' and is rejected
C17_Witness ==
    /\ MatcherReturned
    /\ args[1] = <<"c">>
    /\ Contains(args[2], <<"c","l","a","s","s","r","o","o","m">>)
    /\ Contains(args[2], args[1])
    /\ result.value = FALSE

\* C18: a skill without space and period other than 'r', 'c' and 'go' ('c++'
\* among them) is matched exactly when it occurs in the text, whatever the
\* case, as a whole token between whitespace, punctuation or the text
\* boundaries.
C18_WholeTokenMatch ==
    (/\ MatcherReturned
     /\ Lower(args[1]) \notin ShortTokens
     /\ \A i \in DOMAIN args[1] : args[1][i] \notin {" ", "."})
        => (result.value <=> OccursAsToken(Lower(args[2]), Lower(args[1])))

(***************************************************************************)
(* Properties of _detect_job_category                                      *)
(***************************************************************************)
\* a classifier call that returned; result.value is the category
CategoryReturned == call = "_detect_job_category" /\ result.status = "returned"

\* the number of keywords of a category that occur in the lowercased posting
KeywordsPresent(category) ==
    Cardinality({k \in DOMAIN job_categories[category] :
                    Contains(Lower(args[1]), job_categories[category][k])})

\* the number of places of the lowercased posting where a keyword of the
\* category starts
KeywordOccurrences(category) ==
    Cardinality({<<k, i>> \in (DOMAIN job_categories[category]) \X (0..Len(args[1])) :
                    StartsAt(Lower(args[1]), i, job_categories[category][k])})

\* the position of a category in the table
TableIndex(category) == CHOOSE i \in DOMAIN category_names : category_names[i] = category

\* C14: the category is 'business' when no keyword of any category occurs in
\* the lowercased posting.
C14_DefaultsToBusiness ==
    (CategoryReturned /\ \A c \in Range(category_names) : KeywordsPresent(c) = 0)
        => result.value = "business"

\* C15: when some category count is positive, the returned category has a
\* maximal count (the number of its keywords that occur in the lowercased
\* posting), and it is the first of the table order among those with that count.
C15_FirstMaximalCategory ==
    CategoryReturned =>
        LET count == [c \in Range(category_names) |-> KeywordsPresent(c)]
        IN  (\E c \in Range(category_names) : count[c] > 0)
                => /\ result.value \in Range(category_names)
                   /\ \A c \in Range(category_names) :
                         /\ count[c] <= count[result.value]
                         /\ count[c] = count[result.value]
                               => TableIndex(result.value) <= TableIndex(c)

\* 'business' ties with 'research' for the maximum and is returned
C15_Witness ==
    /\ CategoryReturned
    /\ result.value = "business"
    /\ KeywordsPresent("business") > 0
    /\ KeywordsPresent("research") = KeywordsPresent("business")

\* C16: a keyword that occurs k times contributes k to the count of its
\* category, so the returned category is the first one whose number of
\* keyword occurrences is maximal.
C16_CountsOccurrences ==
    (CategoryReturned /\ \E c \in Range(category_names) : KeywordOccurrences(c) > 0)
        => \A c \in Range(category_names) :
              /\ KeywordOccurrences(c) <= KeywordOccurrences(result.value)
              /\ KeywordOccurrences(c) = KeywordOccurrences(result.value)
                    => TableIndex(result.value) <= TableIndex(c)

(***************************************************************************)
(* Properties of calculate_text_similarity                                 *)
(***************************************************************************)
\* a similarity call that returned; result.value is the fraction it returned
SimilarityReturned == call = "calculate_text_similarity" /\ result.status = "returned"

\* the lowercase word tokens of a text: its maximal runs of letters, digits
\* and underscores, lowercased
LowercaseTokens(text) ==
    {Lower(SubSeq(text, a, b)) : <<a, b>> \in
        {ab \in (1..Len(text)) \X (1..Len(text)) :
            /\ ab[1] <= ab[2]
            /\ \A k \in ab[1]..ab[2] : IsWordChar(text[k])
            /\ ab[1] = 1 \/ ~IsWordChar(text[ab[1] - 1])
            /\ ab[2] = Len(text) \/ ~IsWordChar(text[ab[2] + 1])}}

\* C12 (as stated): calculate_text_similarity(a, a) == 1.0 for every
\* non-empty string a, also one without word characters.
C12_SelfSimilarityIsOne ==
    (SimilarityReturned /\ args[1] = args[2] /\ args[1] # <<>>)
        => FracEq(result.value, Frac(1, 1))

\* C12 (amended): calculate_text_similarity(a, a) == 1.0 for every string a
\* that holds at least one word token, and 0.0 for every other a, empty or of
\* punctuation and whitespace only.
C12_SelfSimilarityOfWords ==
    (SimilarityReturned /\ args[1] = args[2])
        => FracEq(result.value,
                  IF LowercaseTokens(args[1]) # {} THEN Frac(1, 1) ELSE Frac(0, 1))

\* a text of two tokens and a punctuation mark compared with itself
C12_Witness ==
    /\ SimilarityReturned
    /\ args[1] = args[2]
    /\ Cardinality(LowercaseTokens(args[1])) = 2
    /\ FracEq(result.value, Frac(1, 1))

\* C13: calculate_text_similarity(a, b) is |A \cap B| / |A \cup B| over the
\* sets of lowercase word tokens of a and b, a value in [0, 1], the same for
\* (a, b) and (b, a), and exactly 0.0 when either token set is empty.
C13_JaccardOfTokens ==
    SimilarityReturned =>
        LET A == LowercaseTokens(args[1])
            B == LowercaseTokens(args[2])
            sim == result.value
        IN  /\ sim.d > 0 /\ 0 <= sim.n /\ sim.n <= sim.d
            /\ FracEq(sim, CalculateTextSimilarity(args[2], args[1]))
            /\ IF A = {} \/ B = {} THEN sim.n = 0
               ELSE FracEq(sim, Frac(Cardinality(A \cap B), Cardinality(A \cup B)))

\* two texts that share a token written in different cases and differ in another
C13_Witness ==
    /\ SimilarityReturned
    /\ args[1] # args[2]
    /\ Words(args[1]) \cap Words(args[2]) = {}
    /\ FracEq(result.value, Frac(1, 2))

(***************************************************************************)
(* Properties of the analysis of a posting                                 *)
(***************************************************************************)
\* an analysis that returned; job_analysis is the JobAnalysis of job_description
AnalysisReturned == call = "analyze_job_description" /\ result.status = "returned"

\* the catalog technical skills the Skill Matcher detects in each posting
DetectedSkills ==
    [text \in Postings |-> {tech_skills[k] : k \in
                               {j \in DOMAIN tech_skills : IsSkillMentioned(tech_skills[j], text)}}]

\* the category of each posting
CategoryOf == [text \in Postings |-> DetectJobCategory(Lower(text))]

\* the infrastructure skills left out of a teaching posting
Denylist ==
    { <<"d","o","c","k","e","r">>, <<"k","u","b","e","r","n","e","t","e","s">>,
      <<"a","w","s">>, <<"t","e","r","r","a","f","o","r","m">> }

\* C19: required_skills of a posting that is not classified 'teaching' holds
\* every technical skill the Skill Matcher detects; required_skills of a
\* 'teaching' posting holds every detected technical skill except docker,
\* kubernetes, aws and terraform, and none of these four.
C19_CategoryGatesOnlyDenylist ==
    AnalysisReturned =>
        LET required == Range(job_analysis.required_skills)
        IN  IF CategoryOf[job_description] = "teaching"
            THEN /\ DetectedSkills[job_description] \ Denylist \subseteq required
                 /\ required \cap Denylist = {}
            ELSE DetectedSkills[job_description] \subseteq required

\* a teaching posting where a denylisted skill and another skill are detected
C19_Witness ==
    /\ AnalysisReturned
    /\ CategoryOf[job_description] = "teaching"
    /\ DetectedSkills[job_description] \cap Denylist # {}
    /\ DetectedSkills[job_description] \ Denylist # {}
    /\ Range(job_analysis.required_skills) \cap DetectedSkills[job_description] # {}

\* whether one of the four years patterns occurs in a posting, in any case
YearsPatternOccurs ==
    [text \in Postings |-> \E k \in DOMAIN years_patterns :
                               YearsPatternMatches(years_patterns[k], Lower(text))]

\* C20: required_experience_years is a non-negative integer, and it is 0 when
\* none of the four years patterns occurs in the posting.
C20_YearsNonNegative ==
    AnalysisReturned =>
        /\ job_analysis.required_experience_years \in Nat
        /\ ~YearsPatternOccurs[job_description]
              => job_analysis.required_experience_years = 0

\* a posting with numbers and the word 'year' but none of the patterns
C20_Witness ==
    /\ AnalysisReturned
    /\ \E i \in DOMAIN job_description : IsDigit(job_description[i])
    /\ ~YearsPatternOccurs[job_description]
    /\ job_analysis.required_experience_years = 0

\* for each posting and each years pattern, where the pattern first matches in
\* the lowercased posting (-1: nowhere) and the number of that first match
YearsMatch ==
    [text \in Postings |->
        [k \in DOMAIN years_patterns |->
            LET starts == {a \in 0..Len(text) :
                              CaptureSpans(years_patterns[k], Lower(text), a) # {}}
            IN  IF starts = {} THEN [start |-> -1, years |-> 0]
                ELSE [start |-> CHOOSE a \in starts : \A b \in starts : a <= b,
                      years |-> ToInt(FirstYearsCapture(years_patterns[k], Lower(text)))]]]

\* C21: required_experience_years is the number of the first occurrence of
\* the first pattern, in the order of the list, that matches anywhere in the
\* posting; matches of later patterns do not count, wherever they are.
C21_HighestPriorityPattern ==
    AnalysisReturned =>
        \A k \in DOMAIN years_patterns :
            (/\ YearsMatch[job_description][k].start >= 0
             /\ \A j \in 1..(k - 1) : YearsMatch[job_description][j].start < 0)
                => job_analysis.required_experience_years = YearsMatch[job_description][k].years

\* 'at least 7 years' (fourth pattern) comes before '3 years of experience'
\* (first pattern) and the result is 3
C21_Witness ==
    /\ AnalysisReturned
    /\ YearsMatch[job_description][4].start >= 0
    /\ YearsMatch[job_description][4].years = 7
    /\ YearsMatch[job_description][1].start > YearsMatch[job_description][4].start
    /\ job_analysis.required_experience_years = 3

FirstNonEmptyLine == [text \in Postings |-> Strip(FirstLine(StripLeft(text)))]

\* C23: job_title is the first non-empty line of the posting when that line
\* is shorter than 100 characters, and empty otherwise, also when the posting
\* begins with blank lines.
C23_TitleIsFirstNonEmptyLine ==
    (AnalysisReturned /\ nlp = "loaded") =>
        job_analysis.job_title =
            IF Len(FirstNonEmptyLine[job_description]) < 100
            THEN FirstNonEmptyLine[job_description] ELSE <<>>

\* the posting of the scenario
ScenarioPosting ==
    <<"S","e","n","i","o","r"," ","P","y","t","h","o","n"," ","D","e","v","e","l","o","p","e","r","."," ","R","e","q","u","i","r","e","s"," ","5","+"," ","y","e","a","r","s"," ","e","x","p","e","r","i","e","n","c","e"," ","w","i","t","h"," ","P","y","t","h","o","n"," ","a","n","d"," ","A","W","S",".">>

\* the catalog technical skills that stand in each lowercased posting as
\* whole words
MentionedAsWord ==
    [text \in Postings |-> {tech_skills[k] : k \in
                               {j \in DOMAIN tech_skills :
                                   OccursAsToken(Lower(text), tech_skills[j])}}]

\* C25: the scenario posting yields 5 years and required_skills with
\* 'python' and 'aws'; a posting classified 'technology' has in
\* required_skills every catalog skill it mentions as a whole word.
C25_TechnologyPostingSkills ==
    AnalysisReturned =>
        /\ job_description = ScenarioPosting =>
              /\ job_analysis.required_experience_years = 5
              /\ {<<"p","y","t","h","o","n">>, <<"a","w","s">>}
                    \subseteq Range(job_analysis.required_skills)
        /\ CategoryOf[job_description] = "technology" =>
              MentionedAsWord[job_description] \subseteq Range(job_analysis.required_skills)

(***************************************************************************)
(* Properties of initialize                                                *)
(***************************************************************************)
\* C24: once the model is loaded, no initialize or analyze_job_description
\* call loads it again or changes self.nlp, and every initialize call
\* returns True.
C24_InitializeIdempotent ==
    [][/\ nlp = "loaded" => (nlp' = "loaded" /\ load_count' = load_count)
       /\ call' = "initialize" => result' = Returned(TRUE)]_vars

\* an initialize call on a selector whose model an earlier call loaded and
\* that has analyzed a posting since: the model was loaded once
C24_Witness ==
    /\ call = "initialize"
    /\ result = Returned(TRUE)
    /\ nlp = "loaded"
    /\ load_count = 1
    /\ job_description # <<>>
    /\ job_analysis.job_title # <<>>

(***************************************************************************)
(* Frame of rank_profile_assets and analyze_job_description                *)
(***************************************************************************)
\* what a ranking call leaves alone and what its result is made of
RankingFrame ==
    call' = "rank_profile_assets" =>
        /\ job_analysis' = job_analysis
        /\ job_description' = job_description
        /\ nlp' = nlp /\ load_count' = load_count
        /\ result' = RankProfileAssetsResult(job_analysis, user_profile')

\* C28 (as stated): neither rank_profile_assets nor analyze_job_description
\* changes shared state, and the result of a ranking depends on its two
\* arguments alone.
C28_NoEffectOnSharedState ==
    [][/\ RankingFrame
       /\ call' = "analyze_job_description" =>
             (nlp' = nlp /\ load_count' = load_count /\ user_profile' = user_profile)]_vars

\* C28 (amended): rank_profile_assets changes no shared state and its result
\* depends on its two arguments alone; analyze_job_description changes no
\* shared state but self.nlp, which it loads, through initialize(), when no
\* model is loaded yet.
C28_NoEffectButLazyLoad ==
    [][/\ RankingFrame
       /\ call' = "analyze_job_description" =>
             /\ user_profile' = user_profile
             /\ nlp = "loaded" => (nlp' = nlp /\ load_count' = load_count)]_vars

\* a ranking of a non-empty profile against the analysis of a posting, made
\* with the model loaded
C28_Witness ==
    /\ RankReturned
    /\ result.value # <<>>
    /\ nlp = "loaded"
    /\ job_description # <<>>
    /\ job_analysis.required_skills # <<>>

(***************************************************************************)
(* The selection step of generate_with_agents and generate_with_gemini     *)
(***************************************************************************)
\* the condition of the comprehension without .lower()
IsProjectLikeCased(asset) ==
    \/ Contains(asset.title.s, <<"p","r","o","j","e","c","t">>)
    \/ Contains(asset.description.s, <<"b","u","i","l","t">>)

\* 'project' in asset.title.lower() or 'built' in asset.description.lower()
IsProjectLike(asset) ==
    \/ Contains(Lower(asset.title.s), <<"p","r","o","j","e","c","t">>)
    \/ Contains(Lower(asset.description.s), <<"b","u","i","l","t">>)

\* asset.title.lower() raises AttributeError when the title is no str
SelectionRaises(assets) == \E i \in DOMAIN assets : assets[i].title.t # "str"

\* [asset for asset in assets if <project-like>]
ProjectLike(assets) == SelectSeq(assets, IsProjectLike)

\* [asset for asset in assets if asset not in projects]
NotIn(assets, projects) ==
    SelectSeq(assets, LAMBDA asset : \A i \in DOMAIN projects : projects[i] # asset)

\* select_best_assets: max_assets: int = 5
DefaultMaxAssets == 5

\* select_best_assets(ranked_assets): ranked_assets[:max_assets]
SelectBestAssets(ranked_assets) == Take(ranked_assets, DefaultMaxAssets)

\* the two comprehensions: projects and experiences
Buckets(assets) ==
    [projects |-> ProjectLike(assets), experiences |-> NotIn(assets, ProjectLike(assets))]

\* generate_with_agents: projects[:max_projects], experiences[:max_experiences]
Limited(buckets, env) ==
    [projects |-> Take(buckets.projects, env.max_projects),
     experiences |-> Take(buckets.experiences, env.max_experiences)]

\* generate_with_agents: filtered_assets
Filtered(ranked_assets, env) ==
    SelectSeq(ranked_assets, LAMBDA asset : FracLeq(env.threshold, asset.score))

\* generate_with_agents: selected_projects and selected_experiences
AgentSelection(ranked_assets, env) ==
    IF SelectionRaises(Filtered(ranked_assets, env)) THEN Raised
    ELSE Returned(Limited(Buckets(Filtered(ranked_assets, env)), env))

\* generate_with_gemini: selected_projects and selected_experiences
V2Selection(ranked_assets) ==
    IF SelectionRaises(SelectBestAssets(ranked_assets)) THEN Raised
    ELSE Returned(Buckets(SelectBestAssets(ranked_assets)))

\* the most assets of a ranking
MaxRanked == 6

\* ProfileAssets by score: a project by title and description, an experience,
\* a project by an uppercase description at the default threshold, an
\* experience without a title and one more experience below the threshold
RankedPool ==
    <<[title |-> StrVal(<<"P","r","o","j","e","c","t"," ","X">>), description |-> StrVal(<<"B","u","i","l","t"," ","a"," ","R","e","a","c","t"," ","d","a","s","h","b","o","a","r","d">>), score |-> Frac(8, 1)],
      [title |-> StrVal(<<"D","e","v">>), description |-> StrVal(<<"n","o","d","e"," ","j","s">>), score |-> Frac(6, 1)],
      [title |-> StrVal(<<"A","p","i">>), description |-> StrVal(<<"B","U","I","L","T"," ","t","h","e"," ","a","p","i">>), score |-> Frac(5, 1)],
      [title |-> NoneVal, description |-> StrVal(<<"w","o","r","k","e","d">>), score |-> Frac(4, 1)],
      [title |-> StrVal(<<"D","e","v">>), description |-> StrVal(<<"w","o","r","k","e","d">>), score |-> Frac(2, 1)]>>

\* the rankings: the lists of pool assets in non-increasing order of score
Rankings ==
    {[i \in DOMAIN ks |-> RankedPool[ks[i]]] : ks \in
        {s \in SeqsUpTo(DOMAIN RankedPool, MaxRanked) :
            \A i \in 1..(Len(s) - 1) : s[i] <= s[i + 1]}}

\* SELECTION_THRESHOLD, MAX_PROJECTS, MAX_EXPERIENCES: the defaults and a
\* stricter environment
DefaultEnv == [threshold |-> Frac(5, 1), max_projects |-> 3, max_experiences |-> 2]

Envs == {DefaultEnv, [threshold |-> Frac(6, 1), max_projects |-> 1, max_experiences |-> 1]}

SelectionArgs == {<<path, ranked_assets, env>> :
                     path \in {"agents", "v2"}, ranked_assets \in Rankings, env \in Envs}

\* the selection step of the path args[1] on the ranking args[2]
Select ==
    /\ call' = "select"
    /\ result' = IF args[1] = "agents" THEN AgentSelection(args[2], args[3])
                 ELSE V2Selection(args[2])
    /\ UNCHANGED <<nlp, load_count, job_description, job_analysis, user_profile, args>>

InitSelect ==
    /\ nlp = "None"
    /\ load_count = 0
    /\ job_description = <<>>
    /\ job_analysis = JobAnalysisOf(<<>>, <<>>)
    /\ user_profile = EmptyProfile
    /\ args \in SelectionArgs
    /\ call = "none"
    /\ result = NoResult

NextSelect == call = "none" /\ Select

SpecSelect == InitSelect /\ [][NextSelect]_vars

(***************************************************************************)
(* Properties of the selection step                                        *)
(***************************************************************************)
\* a selection that returned; result.value holds the two buckets
SelectReturned == call = "select" /\ result.status = "returned"

\* the title holds "project" or the description holds "built", in any case
TitleOrDescriptionTells(asset) ==
    \/ \E i \in 0..Len(asset.title.s) : StartsAt(Lower(asset.title.s), i, <<"p","r","o","j","e","c","t">>)
    \/ \E i \in 0..Len(asset.description.s) : StartsAt(Lower(asset.description.s), i, <<"b","u","i","l","t">>)

\* how often an asset is in a list
Occurrences(assets, asset) == Cardinality({i \in DOMAIN assets : assets[i] = asset})

\* C29: the project-like bucket holds project-like assets only and the
\* experience-like bucket none, each in ranked order; in the agent path every
\* selected asset reaches the threshold, an asset below it is in no bucket and
\* the buckets hold at most MAX_PROJECTS and MAX_EXPERIENCES assets; in the V2
\* path the two buckets together are the (at most 5) top-ranked assets, each
\* in exactly one bucket.
C29_SelectionPartitions ==
    SelectReturned =>
        LET projects == result.value.projects
            experiences == result.value.experiences
        IN  /\ \A i \in DOMAIN projects : TitleOrDescriptionTells(projects[i])
            /\ \A i \in DOMAIN experiences : ~TitleOrDescriptionTells(experiences[i])
            /\ IsSubsequence(projects, args[2])
            /\ IsSubsequence(experiences, args[2])
            /\ args[1] = "agents" =>
                  /\ \A x \in Range(projects) \cup Range(experiences) :
                        FracLeq(args[3].threshold, x.score)
                  /\ Len(projects) <= args[3].max_projects
                  /\ Len(experiences) <= args[3].max_experiences
                  /\ \A x \in Range(args[2]) :
                        Occurrences(projects, x) + Occurrences(experiences, x)
                            <= Occurrences(args[2], x)
            /\ args[1] = "v2" =>
                  /\ Len(projects) + Len(experiences) <= 5
                  /\ \A x \in Range(args[2]) :
                        Occurrences(projects, x) + Occurrences(experiences, x)
                            = Occurrences(SubSeq(args[2], 1, Len(projects) + Len(experiences)), x)
                  /\ Len(args[2]) > 5 => Len(projects) + Len(experiences) = 5

\* the agent path with more project-like and more experience-like assets
\* above the threshold than the limits, one of them project-like by its
\* uppercase description, and an asset below the threshold
C29_Witness ==
    /\ SelectReturned
    /\ args[1] = "agents"
    /\ Len(args[2]) = MaxRanked
    /\ Len(result.value.projects) = args[3].max_projects
    /\ Len(result.value.experiences) = args[3].max_experiences
    /\ \E i \in DOMAIN result.value.projects :
          result.value.projects[i].description.s = <<"B","U","I","L","T"," ","t","h","e"," ","a","p","i">>
    /\ \E i \in DOMAIN args[2] : FracLt(args[2][i].score, args[3].threshold)

(***************************************************************************)
(* generate_content and its fallback chain                                 *)
(*   args    the request and the configuration: model (a Gemini model is   *)
(*           configured), agent_mode (AGENT_MODE and agent_orchestrator),  *)
(*           the posting and the profile                                   *)
(*   call    the function of main.py the request is in; "responded" once   *)
(*           the handler has answered                                      *)
(*   result  the answer: a GenerationResponse or the HTTP 500              *)
(***************************************************************************)
\* UserProfile.dict(): 'projects' is a str or None; there is no 'experiences' key
RequestProfiles ==
    {[projects |-> f, experiences |-> Absent] :
        f \in {NoneField, StrField(<<"B","u","i","l","t"," ","a"," ","R","e","a","c","t"," ","a","p","p"," ","o","n"," ","n","o","d","e",".","j","s">>)}}

Requests ==
    [model : BOOLEAN, agent_mode : BOOLEAN,
     job_description : Postings, user_profile : RequestProfiles]

\* GenerationResponse(generated_content, success=True, token_usage)
Response(generated_content, token_usage) ==
    Returned([generated_content |-> generated_content, token_usage |-> token_usage])

\* generate_content: except Exception: raise HTTPException(status_code=500)
Http500 == [status |-> "raised", value |-> "HTTPException"]

\* steps 1 and 2 of both pipelines: analyze_job_description, which raises
\* when the backend does, and rank_profile_assets
Pipeline(outcome, backend_raises) ==
    /\ backend_raises => NlpAfterInitialize(outcome) = "loaded"
    /\ nlp' = NlpAfterInitialize(outcome)
    /\ load_count' = LoadsAfterInitialize(outcome)
    /\ job_description' = args.job_description
    /\ IF backend_raises THEN UNCHANGED <<job_analysis, user_profile>>
       ELSE /\ job_analysis' \in Analyses[args.job_description][NlpAfterInitialize(outcome)]
            /\ user_profile' = args.user_profile

\* step 2 raises: rank_profile_assets raises when the scoring of an asset
\* of the profile does, whatever the analysis
RankingRaises ==
    \E i \in DOMAIN AllAssets(args.user_profile) :
        ScoringRaises(AllAssets(args.user_profile)[i])

\* generate_with_agents answering the error with HTTP 500
AgentErrorPropagates == call' = "responded" /\ result' = Http500

\* generate_with_agents: except Exception: return await generate_with_gemini(...)
AgentError == call' = "generate_with_gemini" /\ UNCHANGED result

\* generate_with_gemini: except Exception:
\* return create_enhanced_mock_content(application_data), None
V2Error == call' = "responded" /\ result' = Response("enhanced_mock", "None")

\* generate_content up to the choice of the generation method
GenerateContent ==
    /\ call = "none"
    /\ IF ~args.model
       THEN call' = "responded" /\ result' = Response("mock", "None")
       ELSE /\ call' = IF args.agent_mode THEN "generate_with_agents"
                       ELSE "generate_with_gemini"
            /\ UNCHANGED result
    /\ UNCHANGED <<nlp, load_count, job_description, job_analysis, user_profile, args>>

\* generate_with_agents; generation_raises: a later step, the agent pipeline
\* or the model raises
GenerateWithAgents(outcome, backend_raises, generation_raises) ==
    /\ call = "generate_with_agents"
    /\ Pipeline(outcome, backend_raises)
    /\ IF backend_raises \/ RankingRaises \/ generation_raises THEN AgentError
       ELSE call' = "responded" /\ result' = Response("agents", "dict")
    /\ UNCHANGED args

\* generate_with_gemini; generation_raises: model.generate_content raises
GenerateWithGemini(outcome, backend_raises, generation_raises) ==
    /\ call = "generate_with_gemini"
    /\ Pipeline(outcome, backend_raises)
    /\ IF backend_raises \/ RankingRaises \/ generation_raises THEN V2Error
       ELSE call' = "responded" /\ result' = Response("v2", "dict")
    /\ UNCHANGED args

\* the module is imported: with a model configured, initialize() has run
InitGenerate ==
    /\ args \in Requests
    /\ nlp \in (IF args.model THEN {"loaded", "None"} ELSE {"None"})
    /\ load_count = (IF nlp = "loaded" THEN 1 ELSE 0)
    /\ job_description = <<>>
    /\ job_analysis = JobAnalysisOf(<<>>, <<>>)
    /\ user_profile = EmptyProfile
    /\ call = "none"
    /\ result = NoResult

NextGenerate ==
    \/ GenerateContent
    \/ \E outcome \in LoadOutcomes, backend_raises, generation_raises \in BOOLEAN :
          GenerateWithAgents(outcome, backend_raises, generation_raises)
    \/ \E outcome \in LoadOutcomes, backend_raises, generation_raises \in BOOLEAN :
          GenerateWithGemini(outcome, backend_raises, generation_raises)

\* the handler runs to its answer
SpecGenerate == InitGenerate /\ [][NextGenerate]_vars /\ WF_vars(NextGenerate)

(***************************************************************************)
(* Properties of generate_content                                          *)
(***************************************************************************)
\* one step of the handler follows the order of the chain
FallbackStep ==
    /\ (call = "none" /\ ~args.model) =>
         (call' = "responded" /\ result' = Response("mock", "None"))
    /\ (call = "none" /\ args.model /\ args.agent_mode) =>
         call' = "generate_with_agents"
    /\ call = "generate_with_agents" =>
         \/ call' = "generate_with_gemini" /\ result' = result
         \/ call' = "responded" /\ result' = Response("agents", "dict")
    /\ call = "generate_with_gemini" =>
         /\ call' = "responded"
         /\ result' \in {Response("v2", "dict"), Response("enhanced_mock", "None")}
    /\ (call' = "responded" /\ result' = Response("enhanced_mock", "None")) =>
         call = "generate_with_gemini"

\* C30: without a model the answer is the basic mock content; with a model
\* and agent mode the agent path runs first and its errors lead to the V2
\* pipeline; the errors of the V2 pipeline lead to the enhanced mock content
\* with token_usage None, which nothing else produces; no answer is an HTTP
\* 500, and every request is answered with content.
C30_FallbackChain ==
    /\ [][FallbackStep]_vars
    /\ [](call = "responded" => result.status = "returned")
    /\ <>(call = "responded")

\* the agent path and then the V2 pipeline failed: enhanced mock content
C30_Witness ==
    /\ call = "responded"
    /\ args.model /\ args.agent_mode
    /\ result = Response("enhanced_mock", "None")
    /\ job_description = args.job_description

====
